---- MODULE Spec2Model ----
(***************************************************************************)
(* Model of src/native/libs/System.Native/pal_io.c: the System.Native     *)
(* file-I/O shim.  Every SystemNative_* entry point is an action; every    *)
(* native (libc) call it makes is one step, whose outcome is chosen by     *)
(* the host: success, failure with EINTR, or failure with another error.   *)
(* The build-time switches (HAVE_O_CLOEXEC, ...) are the record plat,      *)
(* chosen once in Init.  Release builds are modelled: assert / assert_msg  *)
(* compile to nothing.                                                     *)
(*                                                                         *)
(* int32_t values are TLA+ integers; the bit operators below are two's     *)
(* complement, so -1 is the word with every bit set.                       *)
(***************************************************************************)
EXTENDS Integers, Sequences, FiniteSets, TLC

\* The largest number of EINTR failures the host delivers during one call.
MaxIntr == 2

---------------------------------------------------------------------------
\* Bit operators of C on two's-complement integers (&, |, ~).

RECURSIVE BitAnd(_, _)
BitAnd(a, b) ==
    IF a = 0 \/ b = 0 THEN 0
    ELSE IF a = -1 THEN b
    ELSE IF b = -1 THEN a
    ELSE (a % 2) * (b % 2) + 2 * BitAnd(a \div 2, b \div 2)

RECURSIVE BitOr(_, _)
BitOr(a, b) ==
    IF a = 0 THEN b
    ELSE IF b = 0 THEN a
    ELSE IF a = -1 \/ b = -1 THEN -1
    ELSE (IF a % 2 = 1 \/ b % 2 = 1 THEN 1 ELSE 0) + 2 * BitOr(a \div 2, b \div 2)

BitNot(a) == -a - 1

---------------------------------------------------------------------------
\* Portable (PAL_*) constants of pal_io.h.

PAL_O_RDONLY == 0
PAL_O_WRONLY == 1
PAL_O_RDWR == 2
PAL_O_ACCESS_MODE_MASK == 15
PAL_O_CLOEXEC == 16
PAL_O_CREAT == 32
PAL_O_EXCL == 64
PAL_O_TRUNC == 128
PAL_O_SYNC == 256

PAL_PROT_NONE == 0
PAL_PROT_READ == 1
PAL_PROT_WRITE == 2
PAL_PROT_EXEC == 4

PAL_MAP_SHARED == 1
PAL_MAP_PRIVATE == 2
PAL_MAP_ANONYMOUS == 16

PAL_MS_ASYNC == 1
PAL_MS_SYNC == 2
PAL_MS_INVALIDATE == 16

\* Native constants of the host's <fcntl.h> and <sys/mman.h> (the Linux values).
O_RDONLY == 0
O_WRONLY == 1
O_RDWR == 2
O_CREAT == 64
O_EXCL == 128
O_TRUNC == 512
O_SYNC == 1052672
O_CLOEXEC == 524288
FD_CLOEXEC == 1

PROT_NONE == 0
PROT_READ == 1
PROT_WRITE == 2
PROT_EXEC == 4

MAP_SHARED == 1
MAP_PRIVATE == 2
MAP_ANON == 32

MS_ASYNC == 1
MS_INVALIDATE == 2
MS_SYNC == 4

---------------------------------------------------------------------------
VARIABLES
    plat,    \* the build: a record of the HAVE_* switches
    errno,   \* the calling thread's error indicator ("NONE" is 0)
    pc,      \* "idle", a label inside the entry point being run, or "done"
    op,      \* the entry point being run ("none" when idle)
    args,    \* its arguments
    ret,     \* its result (the local result/ret/count; the return value at "done")
    calls,   \* the native calls it has issued so far, in order
    intr,    \* how many of them failed with EINTR
    out,     \* what it wrote through its output pointer
    dir,     \* the directory cursor (DIR*) of the directory calls
    cp,      \* the files and locals of SystemNative_CopyFile
    vec,     \* the file and locals of SystemNative_PReadV / SystemNative_PWriteV
    fdtab    \* the descriptors of SystemNative_Pipe: those open, those with FD_CLOEXEC;
             \* and its local tmpErrno

vars == <<plat, errno, pc, op, args, ret, calls, intr, out, dir, cp, vec, fdtab>>

\* Errors other than EINTR that a native call may fail with.
NativeErrs == {"EACCES", "EIO"}

Ok(v) == [res |-> v, err |-> "NONE"]
Fail(e) == [res |-> -1, err |-> e]

\* What the host may answer to a native call whose success values are okVals.
OutcomesNoIntr(okVals) == {Ok(v) : v \in okVals} \cup {Fail(e) : e \in NativeErrs}
Outcomes(okVals) ==
    OutcomesNoIntr(okVals) \cup (IF intr < MaxIntr THEN {Fail("EINTR")} ELSE {})

\* The native call fn(a) answered with o: a failure sets errno, a success leaves it.
Native(fn, a, o) ==
    /\ calls' = Append(calls, [fn |-> fn, args |-> a, res |-> o.res, err |-> o.err])
    /\ errno' = IF o.res < 0 THEN o.err ELSE errno
    /\ intr' = IF o.err = "EINTR" THEN intr + 1 ELSE intr

NoOutput == [written |-> FALSE]

\* Entering entry point name with arguments a, about to run label l.
Enter(name, a, l) ==
    /\ pc = "idle"
    /\ op' = name /\ args' = a /\ pc' = l
    /\ calls' = <<>> /\ intr' = 0 /\ ret' = 0 /\ out' = NoOutput
    /\ UNCHANGED <<fdtab, vec, dir, cp, plat, errno>>

\* Entering entry point name and returning r at once, with errno set to e.
Reject(name, a, r, e) ==
    /\ pc = "idle"
    /\ op' = name /\ args' = a /\ pc' = "done"
    /\ calls' = <<>> /\ intr' = 0 /\ ret' = r /\ out' = NoOutput
    /\ errno' = e
    /\ UNCHANGED <<fdtab, vec, dir, cp, plat>>

\* The caller takes the result; errno stays as the call left it.
Return ==
    /\ pc = "done"
    /\ pc' = "idle" /\ op' = "none" /\ args' = <<>>
    /\ calls' = <<>> /\ intr' = 0 /\ ret' = 0 /\ out' = NoOutput
    /\ UNCHANGED <<fdtab, vec, dir, cp, plat, errno>>

\* RetryStep without the loop: the first answer is returned, interrupted or not.
RetryStep_NoRetry(name, fn, a, okVals) ==
    /\ pc = "loop" /\ op = name
    /\ \E o \in Outcomes(okVals) :
          /\ Native(fn, a, o)
          /\ pc' = "done" /\ ret' = o.res
    /\ UNCHANGED <<fdtab, vec, dir, cp, plat, op, args, out>>

\* while ((result = fn(a)) < 0 && errno == EINTR); return result;
RetryStep(name, fn, a, okVals) ==
    /\ pc = "loop" /\ op = name
    /\ \E o \in Outcomes(okVals) :
          /\ Native(fn, a, o)
          /\ IF o.res < 0 /\ errno' = "EINTR"
                THEN UNCHANGED <<pc, ret>>
                ELSE pc' = "done" /\ ret' = o.res
    /\ UNCHANGED <<fdtab, vec, dir, cp, plat, op, args, out>>

\* return fn(a);
SingleStep(name, fn, a, okVals) ==
    /\ pc = "call" /\ op = name
    /\ \E o \in Outcomes(okVals) :
          /\ Native(fn, a, o)
          /\ pc' = "done" /\ ret' = o.res
    /\ UNCHANGED <<fdtab, vec, dir, cp, plat, op, args, out>>

\* The path, descriptor and mode arguments the calls are tried with.
Paths == {1, 2}
Fds == {3, 4}
Modes == {420}

---------------------------------------------------------------------------
\* The entry points that are one retried native call.

SystemNative_Unlink ==
    \/ /\ pc = "idle"
       /\ \E p \in Paths : Enter("Unlink", <<p>>, "loop")
    \/ RetryStep("Unlink", "unlink", args, {0})

SystemNative_MkDir ==
    \/ /\ pc = "idle"
       /\ \E p \in Paths, m \in Modes : Enter("MkDir", <<p, m>>, "loop")
    \/ RetryStep("MkDir", "mkdir", args, {0})

SystemNative_ChMod ==
    \/ /\ pc = "idle"
       /\ \E p \in Paths, m \in Modes : Enter("ChMod", <<p, m>>, "loop")
    \/ RetryStep("ChMod", "chmod", args, {0})

SystemNative_FChMod ==
    \/ /\ pc = "idle"
       /\ \E fd \in Fds, m \in Modes : Enter("FChMod", <<fd, m>>, "loop")
    \/ RetryStep("FChMod", "fchmod", args, {0})

SystemNative_FLock ==
    \/ /\ pc = "idle"
       /\ \E fd \in Fds, o \in {1, 2, 8} : Enter("FLock", <<fd, o>>, "loop")
    \/ RetryStep("FLock", "flock", args, {0})

SystemNative_ChDir ==
    \/ /\ pc = "idle"
       /\ \E p \in Paths : Enter("ChDir", <<p>>, "loop")
    \/ RetryStep("ChDir", "chdir", args, {0})

SystemNative_LSeek ==
    \/ /\ pc = "idle"
       /\ \E fd \in Fds, off \in {0, 7}, wh \in {0, 2} : Enter("LSeek", <<fd, off, wh>>, "loop")
    \/ RetryStep("LSeek", "lseek", args, {0, 7})

SystemNative_Link ==
    \/ /\ pc = "idle"
       /\ \E s \in Paths, t \in Paths : Enter("Link", <<s, t>>, "loop")
    \/ RetryStep("Link", "link", args, {0})

SystemNative_SymLink ==
    \/ /\ pc = "idle"
       /\ \E s \in Paths, t \in Paths : Enter("SymLink", <<s, t>>, "loop")
    \/ RetryStep("SymLink", "symlink", args, {0})

SystemNative_FTruncate ==
    \/ /\ pc = "idle"
       /\ \E fd \in Fds, len \in {0, 7} : Enter("FTruncate", <<fd, len>>, "loop")
    \/ RetryStep("FTruncate", "ftruncate", args, {0})

SystemNative_Rename ==
    \/ /\ pc = "idle"
       /\ \E s \in Paths, t \in Paths : Enter("Rename", <<s, t>>, "loop")
    \/ RetryStep("Rename", "rename", args, {0})

SystemNative_RmDir ==
    \/ /\ pc = "idle"
       /\ \E p \in Paths : Enter("RmDir", <<p>>, "loop")
    \/ RetryStep("RmDir", "rmdir", args, {0})

\* args = <<fd, buffer size, file offset>>; the native call may transfer less.
SystemNative_PRead ==
    \/ /\ pc = "idle"
       /\ \E fd \in Fds, n \in {0, 2}, off \in {0, 7} : Enter("PRead", <<fd, n, off>>, "loop")
    \/ RetryStep("PRead", "pread", args, 0 .. (IF Len(args) >= 2 THEN args[2] ELSE 0))

SystemNative_PWrite ==
    \/ /\ pc = "idle"
       /\ \E fd \in Fds, n \in {0, 2}, off \in {0, 7} : Enter("PWrite", <<fd, n, off>>, "loop")
    \/ RetryStep("PWrite", "pwrite", args, 0 .. (IF Len(args) >= 2 THEN args[2] ELSE 0))

SystemNative_ShmUnlink ==
    \/ /\ pc = "idle"
       /\ \E p \in Paths : Enter("ShmUnlink", <<p>>, "loop")
    \/ RetryStep("ShmUnlink", "shm_unlink", args, {0})

---------------------------------------------------------------------------
\* Flag translation (the static Convert* functions).

\* ConvertOpenFlags without the test for unknown bits.
ConvertOpenFlags_NoUnknownCheck(flags) ==
    LET acc == BitAnd(flags, PAL_O_ACCESS_MODE_MASK)
        r0 == IF acc = PAL_O_RDONLY THEN O_RDONLY
              ELSE IF acc = PAL_O_RDWR THEN O_RDWR
              ELSE O_WRONLY
        r2 == IF BitAnd(flags, PAL_O_CREAT) # 0 THEN BitOr(r0, O_CREAT) ELSE r0
    IN  IF acc \notin {PAL_O_RDONLY, PAL_O_RDWR, PAL_O_WRONLY} THEN -1 ELSE r2

\* The switch on the access mode with every case giving O_RDWR.
OpenAccessMode_AllReadWrite(acc) == O_RDWR

\* switch (flags & PAL_O_ACCESS_MODE_MASK), for the three modes it accepts.
OpenAccessMode(acc) ==
    IF acc = PAL_O_RDONLY THEN O_RDONLY
    ELSE IF acc = PAL_O_RDWR THEN O_RDWR
    ELSE O_WRONLY

ConvertOpenFlags(flags) ==
    LET acc == BitAnd(flags, PAL_O_ACCESS_MODE_MASK)
        known == BitOr(PAL_O_ACCESS_MODE_MASK,
                   BitOr(PAL_O_CLOEXEC,
                     BitOr(PAL_O_CREAT, BitOr(PAL_O_EXCL, BitOr(PAL_O_TRUNC, PAL_O_SYNC)))))
        r0 == OpenAccessMode(acc)
        r1 == IF plat.HAVE_O_CLOEXEC /\ BitAnd(flags, PAL_O_CLOEXEC) # 0
                 THEN BitOr(r0, O_CLOEXEC) ELSE r0
        r2 == IF BitAnd(flags, PAL_O_CREAT) # 0 THEN BitOr(r1, O_CREAT) ELSE r1
        r3 == IF BitAnd(flags, PAL_O_EXCL) # 0 THEN BitOr(r2, O_EXCL) ELSE r2
        r4 == IF BitAnd(flags, PAL_O_TRUNC) # 0 THEN BitOr(r3, O_TRUNC) ELSE r3
        r5 == IF BitAnd(flags, PAL_O_SYNC) # 0 THEN BitOr(r4, O_SYNC) ELSE r4
    IN  IF acc \notin {PAL_O_RDONLY, PAL_O_RDWR, PAL_O_WRONLY} THEN -1
        ELSE IF BitAnd(flags, BitNot(known)) # 0 THEN -1
        ELSE r5

\* ConvertMMapProtection without the test for unknown bits.
ConvertMMapProtection_NoUnknownCheck(protection) ==
    LET r1 == IF BitAnd(protection, PAL_PROT_READ) # 0 THEN PROT_READ ELSE 0
        r2 == IF BitAnd(protection, PAL_PROT_WRITE) # 0 THEN BitOr(r1, PROT_WRITE) ELSE r1
        r3 == IF BitAnd(protection, PAL_PROT_EXEC) # 0 THEN BitOr(r2, PROT_EXEC) ELSE r2
    IN  IF protection = PAL_PROT_NONE THEN PROT_NONE ELSE r3

ConvertMMapProtection(protection) ==
    LET known == BitOr(PAL_PROT_READ, BitOr(PAL_PROT_WRITE, PAL_PROT_EXEC))
        r1 == IF BitAnd(protection, PAL_PROT_READ) # 0 THEN PROT_READ ELSE 0
        r2 == IF BitAnd(protection, PAL_PROT_WRITE) # 0 THEN BitOr(r1, PROT_WRITE) ELSE r1
        r3 == IF BitAnd(protection, PAL_PROT_EXEC) # 0 THEN BitOr(r2, PROT_EXEC) ELSE r2
    IN  IF protection = PAL_PROT_NONE THEN PROT_NONE
        ELSE IF BitAnd(protection, BitNot(known)) # 0 THEN -1
        ELSE r3

ConvertMMapFlags(flags) ==
    LET known == BitOr(PAL_MAP_SHARED, BitOr(PAL_MAP_PRIVATE, PAL_MAP_ANONYMOUS))
        r1 == IF BitAnd(flags, PAL_MAP_PRIVATE) # 0 THEN MAP_PRIVATE ELSE 0
        r2 == IF BitAnd(flags, PAL_MAP_SHARED) # 0 THEN BitOr(r1, MAP_SHARED) ELSE r1
        r3 == IF BitAnd(flags, PAL_MAP_ANONYMOUS) # 0 THEN BitOr(r2, MAP_ANON) ELSE r2
    IN  IF BitAnd(flags, BitNot(known)) # 0 THEN -1 ELSE r3

ConvertMSyncFlags(flags) ==
    LET known == BitOr(PAL_MS_SYNC, BitOr(PAL_MS_ASYNC, PAL_MS_INVALIDATE))
        r1 == IF BitAnd(flags, PAL_MS_SYNC) # 0 THEN MS_SYNC ELSE 0
        r2 == IF BitAnd(flags, PAL_MS_ASYNC) # 0 THEN BitOr(r1, MS_ASYNC) ELSE r1
        r3 == IF BitAnd(flags, PAL_MS_INVALIDATE) # 0 THEN BitOr(r2, MS_INVALIDATE) ELSE r2
    IN  IF BitAnd(flags, BitNot(known)) # 0 THEN -1 ELSE r3

\* The native lock types differ between hosts: they are kept symbolic.
ConvertLockType(managedLockType) ==
    IF managedLockType = 0 THEN "F_RDLCK"
    ELSE IF managedLockType = 1 THEN "F_WRLCK"
    ELSE "F_UNLCK"

\* The portable open-flag words the calls are tried with: every access-mode
\* value 0..3, some sets of auxiliary bits, and an unknown low or sign bit.
AuxInputs ==
    {0, PAL_O_CLOEXEC, PAL_O_CREAT + PAL_O_EXCL, PAL_O_TRUNC + PAL_O_SYNC,
     PAL_O_CLOEXEC + PAL_O_CREAT + PAL_O_EXCL + PAL_O_TRUNC + PAL_O_SYNC}
UnknownBits == {0, 512, -2147483647 - 1}
OpenFlagInputs ==
    {BitOr(BitOr(a, x), u) : a \in 0 .. 3, x \in AuxInputs, u \in UnknownBits}

---------------------------------------------------------------------------
\* SystemNative_Open: args = <<path, portable flags, mode>>.
SystemNative_Open ==
    \/ /\ pc = "idle"
       /\ \E f \in OpenFlagInputs, m \in Modes :
         IF ConvertOpenFlags(f) = -1
            THEN Reject("Open", <<1, f, m>>, -1, "EINVAL")
            ELSE Enter("Open", <<1, f, m>>, "loop")
    \/ /\ pc = "loop" /\ op = "Open"
       /\ \E o \in Outcomes({5}) :
             /\ Native("open", <<args[1], ConvertOpenFlags(args[2]), args[3]>>, o)
             /\ ret' = o.res
             /\ pc' = IF o.res < 0 /\ errno' = "EINTR" THEN "loop"
                      ELSE IF ~plat.HAVE_O_CLOEXEC /\ BitAnd(args[2], PAL_O_CLOEXEC) # 0
                              THEN "cloexec"
                      ELSE "done"
       /\ UNCHANGED <<fdtab, vec, dir, cp, plat, op, args, out>>
    \/ /\ pc = "cloexec" /\ op = "Open"
       \* fcntl(result, F_SETFD, FD_CLOEXEC): its result is dropped.  On the
       \* failed open's -1 the host answers EBADF.
       /\ \E o \in (IF ret < 0 THEN {Fail("EBADF")} ELSE Outcomes({0})) :
             Native("fcntl", <<ret, "F_SETFD", FD_CLOEXEC>>, o)
       /\ pc' = "done"
       /\ UNCHANGED <<fdtab, vec, dir, cp, plat, op, args, ret, out>>

\* SystemNative_Dup: args = <<oldfd>>.
SystemNative_Dup ==
    \/ /\ pc = "idle"
       /\ \E fd \in Fds : Enter("Dup", <<fd>>, "loop")
    \/ /\ pc = "loop" /\ op = "Dup"
       /\ \E o \in Outcomes({5}) :
             /\ Native("fcntl",
                       <<args[1], IF plat.HAVE_F_DUPFD_CLOEXEC THEN "F_DUPFD_CLOEXEC"
                                  ELSE "F_DUPFD", 0>>, o)
             /\ ret' = o.res
             /\ pc' = IF o.res < 0 /\ errno' = "EINTR" THEN "loop"
                      ELSE IF ~plat.HAVE_F_DUPFD_CLOEXEC THEN "cloexec"
                      ELSE "done"
       /\ UNCHANGED <<fdtab, vec, dir, cp, plat, op, args, out>>
    \/ /\ pc = "cloexec" /\ op = "Dup"
       /\ \E o \in (IF ret < 0 THEN {Fail("EBADF")} ELSE Outcomes({0})) :
             Native("fcntl", <<ret, "F_SETFD", FD_CLOEXEC>>, o)
       /\ pc' = "done"
       /\ UNCHANGED <<fdtab, vec, dir, cp, plat, op, args, ret, out>>

\* SystemNative_ShmOpen: args = <<name, portable flags, mode>>.
SystemNative_ShmOpen ==
    \/ /\ pc = "idle"
       /\ \E f \in OpenFlagInputs, m \in Modes :
         IF ~plat.HAVE_SHM_OPEN
            THEN Reject("ShmOpen", <<1, f, m>>, -1, "ENOTSUP")
         ELSE IF ConvertOpenFlags(f) = -1
            THEN Reject("ShmOpen", <<1, f, m>>, -1, "EINVAL")
         ELSE Enter("ShmOpen", <<1, f, m>>, "call")
    \/ SingleStep("ShmOpen", "shm_open",
                  <<args[1], ConvertOpenFlags(args[2]), args[3]>>, {5})

---------------------------------------------------------------------------
\* The status calls.  FILESTATUS_FLAGS_* are pal_io.h's.
FILESTATUS_FLAGS_NONE == 0
FILESTATUS_FLAGS_HAS_BIRTHTIME == 1

\* The native status records the host may hand back.
NativeStats ==
    {[st_mode |-> 33188, st_size |-> 7, st_birthtime |-> 11, st_birthtime_nsec |-> 13],
     [st_mode |-> 16877, st_size |-> 0, st_birthtime |-> 0, st_birthtime_nsec |-> 0]}

\* ConvertFileStatus as a build with the creation time would do it, whatever
\* the build is.
ConvertFileStatus_AlwaysBirthTime(src) ==
    [written |-> TRUE,
     Mode |-> src.st_mode,
     Size |-> src.st_size,
     Flags |-> BitOr(FILESTATUS_FLAGS_NONE, FILESTATUS_FLAGS_HAS_BIRTHTIME),
     BirthTime |-> src.st_birthtime,
     BirthTimeNsec |-> src.st_birthtime_nsec]

ConvertFileStatus(src) ==
    [written |-> TRUE,
     Mode |-> src.st_mode,
     Size |-> src.st_size,
     Flags |-> IF plat.HAVE_STAT_BIRTHTIME
                  THEN BitOr(FILESTATUS_FLAGS_NONE, FILESTATUS_FLAGS_HAS_BIRTHTIME)
                  ELSE FILESTATUS_FLAGS_NONE,
     BirthTime |-> IF plat.HAVE_STAT_BIRTHTIME THEN src.st_birthtime ELSE 0,
     BirthTimeNsec |-> IF plat.HAVE_STAT_BIRTHTIME THEN src.st_birthtime_nsec ELSE 0]

\* while ((ret = fn(a, &result)) < 0 && errno == EINTR);
\* if (ret == 0) ConvertFileStatus(&result, output); return ret;
StatRetryStep(name, fn) ==
    /\ pc = "loop" /\ op = name
    /\ \E o \in Outcomes({0}), st \in NativeStats :
          /\ Native(fn, args, o)
          /\ IF o.res < 0 /\ errno' = "EINTR"
                THEN UNCHANGED <<pc, ret, out>>
                ELSE /\ pc' = "done" /\ ret' = o.res
                     /\ out' = IF o.res = 0 THEN ConvertFileStatus(st) ELSE out
    /\ UNCHANGED <<fdtab, vec, dir, cp, plat, op, args>>

SystemNative_Stat ==
    \/ /\ pc = "idle"
       /\ \E p \in Paths : Enter("Stat", <<p>>, "loop")
    \/ StatRetryStep("Stat", "stat")

SystemNative_FStat ==
    \/ /\ pc = "idle"
       /\ \E fd \in Fds : Enter("FStat", <<fd>>, "loop")
    \/ StatRetryStep("FStat", "fstat")

\* int ret = lstat_(path, &result); if (ret == 0) ConvertFileStatus(...); return ret;
SystemNative_LStat ==
    \/ /\ pc = "idle"
       /\ \E p \in Paths : Enter("LStat", <<p>>, "call")
    \/ /\ pc = "call" /\ op = "LStat"
       /\ \E o \in Outcomes({0}), st \in NativeStats :
             /\ Native("lstat", args, o)
             /\ pc' = "done" /\ ret' = o.res
             /\ out' = IF o.res = 0 THEN ConvertFileStatus(st) ELSE out
       /\ UNCHANGED <<fdtab, vec, dir, cp, plat, op, args>>

---------------------------------------------------------------------------
\* SystemNative_FcntlSetFD: args = <<fd, portable flags>>.
SystemNative_FcntlSetFD ==
    \/ /\ pc = "idle"
       /\ \E fd \in {3}, f \in OpenFlagInputs : Enter("FcntlSetFD", <<fd, f>>, "loop")
    \/ RetryStep("FcntlSetFD", "fcntl",
                 <<args[1], "F_SETFD", ConvertOpenFlags(args[2])>>, {0})

SystemNative_FcntlGetFD ==
    \/ /\ pc = "idle"
       /\ \E fd \in Fds : Enter("FcntlGetFD", <<fd>>, "call")
    \/ SingleStep("FcntlGetFD", "fcntl", <<args[1], "F_GETFD">>, {0, FD_CLOEXEC})

\* while ((result = fsync(fd) < 0) && errno == EINTR); return result;
\* result is the value of the comparison, 0 or 1.
SystemNative_FSync ==
    \/ /\ pc = "idle"
       /\ \E fd \in Fds : Enter("FSync", <<fd>>, "loop")
    \/ /\ pc = "loop" /\ op = "FSync"
       /\ \E o \in Outcomes({0}) :
             /\ Native("fsync", args, o)
             /\ ret' = IF o.res < 0 THEN 1 ELSE 0
             /\ pc' = IF ret' # 0 /\ errno' = "EINTR" THEN "loop" ELSE "done"
       /\ UNCHANGED <<fdtab, vec, dir, cp, plat, op, args, out>>

\* SystemNative_LockFileRegion testing the offset only.
SystemNative_LockFileRegion_OffsetOnly ==
    \/ /\ pc = "idle"
       /\ \E fd \in {3}, off \in {-1, 0, 5}, len \in {-1, 0, 3}, lt \in 0 .. 3 :
         IF off < 0
            THEN Reject("LockFileRegion", <<fd, off, len, lt>>, -1, "EINVAL")
            ELSE Enter("LockFileRegion", <<fd, off, len, lt>>, "loop")
    \/ RetryStep("LockFileRegion", "fcntl",
                 <<args[1], "F_SETLK", ConvertLockType(args[4]), "SEEK_SET", args[2], args[3]>>,
                 {0})

\* SystemNative_LockFileRegion: args = <<fd, offset, length, lockType>>.
\* The native call is fcntl(fd, F_SETLK, {l_type, l_whence, l_start, l_len}).
SystemNative_LockFileRegion ==
    \/ /\ pc = "idle"
       /\ \E fd \in {3}, off \in {-1, 0, 5}, len \in {-1, 0, 3}, lt \in 0 .. 3 :
         IF off < 0 \/ len < 0
            THEN Reject("LockFileRegion", <<fd, off, len, lt>>, -1, "EINVAL")
            ELSE Enter("LockFileRegion", <<fd, off, len, lt>>, "loop")
    \/ RetryStep("LockFileRegion", "fcntl",
                 <<args[1], "F_SETLK", ConvertLockType(args[4]), "SEEK_SET", args[2], args[3]>>,
                 {0})

---------------------------------------------------------------------------
\* Memory mapping.  A uint64_t length is [hi, lo], its two 32-bit halves;
\* SIZE_MAX is 2^32 - 1 or 2^64 - 1 with the build's size_t.
GtSizeMax(length) == plat.SIZE_T_BITS = 32 /\ length.hi > 0
Lengths == {[hi |-> 0, lo |-> 4096], [hi |-> 1, lo |-> 0]}
ProtInputs == {0, 1, 3, 7, 8, -1}
MapFlagInputs == {1, 2, 3, 18, 4, -1}
MSyncInputs == {0, 1, 2, 18, 4, -1}

\* SystemNative_MMap: args = <<address, length, protection, flags, fd, offset>>;
\* the result is the mapping's address, 0 for NULL.
SystemNative_MMap ==
    \/ /\ pc = "idle"
       /\ \E len \in Lengths, pr \in ProtInputs, fl \in MapFlagInputs :
         LET a == <<0, len, pr, fl, -1, 0>> IN
         IF GtSizeMax(len) THEN Reject("MMap", a, 0, "ERANGE")
         ELSE IF ConvertMMapFlags(fl) = -1 \/ ConvertMMapProtection(pr) = -1
            THEN Reject("MMap", a, 0, "EINVAL")
         ELSE Enter("MMap", a, "call")
    \/ /\ pc = "call" /\ op = "MMap"
       /\ \E o \in OutcomesNoIntr({4096}) :
             /\ Native("mmap", <<args[1], args[2], ConvertMMapProtection(args[3]),
                                 ConvertMMapFlags(args[4]), args[5], args[6]>>, o)
             \* MAP_FAILED is (void*)-1
             /\ ret' = IF o.res = -1 THEN 0 ELSE o.res
       /\ pc' = "done"
       /\ UNCHANGED <<fdtab, vec, dir, cp, plat, op, args, out>>

\* SystemNative_MSync: args = <<address, length, portable flags>>.
SystemNative_MSync ==
    \/ /\ pc = "idle"
       /\ \E len \in Lengths, fl \in MSyncInputs :
         LET a == <<4096, len, fl>> IN
         IF GtSizeMax(len) THEN Reject("MSync", a, -1, "ERANGE")
         ELSE IF ConvertMSyncFlags(fl) = -1 THEN Reject("MSync", a, -1, "EINVAL")
         ELSE Enter("MSync", a, "call")
    \/ /\ pc = "call" /\ op = "MSync"
       /\ \E o \in OutcomesNoIntr({0}) :
             /\ Native("msync", <<args[1], args[2], ConvertMSyncFlags(args[3])>>, o)
             /\ ret' = o.res
       /\ pc' = "done"
       /\ UNCHANGED <<fdtab, vec, dir, cp, plat, op, args, out>>

---------------------------------------------------------------------------
\* The builds.  Each specification varies the switches its entry points read
\* and fixes the others.
Platforms ==
    [HAVE_O_CLOEXEC : BOOLEAN, HAVE_F_DUPFD_CLOEXEC : BOOLEAN, HAVE_SHM_OPEN : BOOLEAN,
     HAVE_STAT_BIRTHTIME : BOOLEAN, SIZE_T_BITS : {32, 64},
     HAVE_READDIR_R : {TRUE}, AIX : {FALSE}, HAVE_D_TYPE : {TRUE},
     HAVE_DIRENT_NAME_LEN : {FALSE}]

NoDir == [open |-> FALSE, n |-> 0, pos |-> 0]
NoCopy == [active |-> FALSE]
NoVec == [active |-> FALSE]
NoFds == [open |-> {}, cloexec |-> {}, tmpErrno |-> "NONE"]

Init ==
    /\ plat \in Platforms
    /\ errno = "NONE"
    /\ pc = "idle" /\ op = "none" /\ args = <<>>
    /\ ret = 0 /\ calls = <<>> /\ intr = 0 /\ out = NoOutput
    /\ dir = NoDir /\ cp = NoCopy /\ vec = NoVec /\ fdtab = NoFds

Next ==
    \/ SystemNative_Unlink
    \/ SystemNative_MkDir
    \/ SystemNative_ChMod
    \/ SystemNative_FChMod
    \/ SystemNative_FLock
    \/ SystemNative_ChDir
    \/ SystemNative_LSeek
    \/ SystemNative_Link
    \/ SystemNative_SymLink
    \/ SystemNative_FTruncate
    \/ SystemNative_Rename
    \/ SystemNative_RmDir
    \/ SystemNative_PRead
    \/ SystemNative_PWrite
    \/ SystemNative_ShmUnlink
    \/ SystemNative_Open
    \/ SystemNative_Dup
    \/ SystemNative_ShmOpen
    \/ SystemNative_Stat
    \/ SystemNative_FStat
    \/ SystemNative_LStat
    \/ SystemNative_FcntlSetFD
    \/ SystemNative_FcntlGetFD
    \/ SystemNative_FSync
    \/ SystemNative_LockFileRegion
    \/ SystemNative_MMap
    \/ SystemNative_MSync
    \/ Return

Spec == Init /\ [][Next]_vars

---------------------------------------------------------------------------
\* Directory enumeration: SystemNative_OpenDir, _ReadDirR, _CloseDir on one cursor.

\* The largest number of entries of a directory.
MaxEntries == 2

\* The host's errno numbers (the Linux values): ReadDirR returns them as its result.
ErrnoValue(e) ==
    CASE e = "NONE" -> 0
      [] e = "EINTR" -> 4
      [] e = "EIO" -> 5
      [] e = "EBADF" -> 9
      [] e = "EACCES" -> 13
      [] e = "EINVAL" -> 22
      [] e = "ERANGE" -> 34
      [] e = "ENOTSUP" -> 95

dirent_alignment == 8
\* sizeof(struct dirent) of the host.
SizeofDirent == 280
PAL_DT_UNKNOWN == 0

SystemNative_GetReadDirRBufferSize ==
    IF plat.HAVE_READDIR_R THEN SizeofDirent + dirent_alignment - 1 ELSE 0

\* The buffer taken as it comes, without the alignment.
AlignedEntry_Unaligned(buffer) == buffer
\* (struct dirent*)((size_t)(buffer + dirent_alignment - 1) & ~(dirent_alignment - 1))
AlignedEntry(buffer) == BitAnd(buffer + dirent_alignment - 1, BitNot(dirent_alignment - 1))

\* (buffer + bufferSize) < ((uint8_t*)entry + sizeof(struct dirent))
BufferTooSmall(buffer, bufferSize) ==
    buffer + bufferSize < AlignedEntry(buffer) + SizeofDirent

\* The i-th native entry of the directory: d_name is the address of its name.
NativeDirent(i) ==
    [d_name |-> 1000 + i, d_type |-> IF i % 2 = 1 THEN 8 ELSE 4, d_namlen |-> 2 + i]

ConvertDirent(entry) ==
    [Name |-> entry.d_name,
     InodeType |-> IF plat.HAVE_D_TYPE THEN entry.d_type ELSE PAL_DT_UNKNOWN,
     NameLength |-> IF plat.HAVE_DIRENT_NAME_LEN THEN entry.d_namlen ELSE -1]

\* The record left as the caller passed it: the memset forgotten.
ZeroEntry_Untouched == out
\* memset(outputEntry, 0, sizeof(*outputEntry))
ZeroEntry == [Name |-> 0, InodeType |-> 0, NameLength |-> 0]
\* What the caller's record holds before anything was written to it.
StaleEntry == [Name |-> 999, InodeType |-> 99, NameLength |-> 99]

DirErrs == NativeErrs \cup {"EINTR"}

\* What the host may answer to a directory read at the cursor's position:
\* error is the call's result, result the entry handed back (0 for NULL),
\* err the value errno is set to ("NONE": errno is left as it was).
\* readdir_r hands its error back as its result and need not set errno.
ReadDirROutcomes ==
    {[error |-> 0, result |-> IF dir.pos < dir.n THEN dir.pos + 1 ELSE 0, err |-> "NONE"]}
    \cup UNION {{[error |-> ErrnoValue(e), result |-> 0, err |-> x] : x \in {"NONE", e}} :
                    e \in DirErrs}
\* AIX: 9 for end-of-directory (errno untouched) and for an error (errno set).
ReadDirRAixOutcomes ==
    {IF dir.pos < dir.n THEN [error |-> 0, result |-> dir.pos + 1, err |-> "NONE"]
                        ELSE [error |-> 9, result |-> 0, err |-> "NONE"]}
    \cup {[error |-> 9, result |-> 0, err |-> e] : e \in DirErrs}
\* readdir: NULL at the end (errno untouched) and on an error (errno set).
ReadDirOutcomesAt(d) ==
    {[error |-> 0, result |-> IF d.pos < d.n THEN d.pos + 1 ELSE 0, err |-> "NONE"]}
    \cup {[error |-> 0, result |-> 0, err |-> e] : e \in DirErrs}
ReadDirOutcomes == ReadDirOutcomesAt(dir)

\* errno after "errno = 0; <native read>" answered with o, without the clearing.
ClearErrnoThenCall_NoClear(o) == IF o.err = "NONE" THEN errno ELSE o.err
\* errno after "errno = 0; <native read>" answered with o.
ClearErrnoThenCall(o) == o.err

\* AIX, error == 9: return errno == 0 ? -1 : errno;
AixResult(e) == IF e = "NONE" THEN -1 ELSE ErrnoValue(e)

\* readdir's NULL with errno ignored: always end-of-stream.
ReadDirResult_IgnoresErrno(e) == -1
\* readdir, entry == NULL: if (errno != 0) return errno; return -1;
ReadDirResult(e) == IF e # "NONE" THEN ErrnoValue(e) ELSE -1

\* readdir_r's answer with the error taken for the end of the stream.
ReadDirRResult_ErrorAsEnd(error, result) == IF result = 0 THEN -1 ELSE 0
\* readdir_r: error != 0 -> error; result == NULL -> -1; else 0.
ReadDirRResult(error, result) ==
    IF error # 0 THEN error ELSE IF result = 0 THEN -1 ELSE 0

DirNative(fn, o) ==
    /\ calls' = Append(calls, [fn |-> fn, args |-> <<dir.pos>>, res |-> o.error,
                               err |-> o.err, result |-> o.result, errnoBefore |-> errno])
    /\ dir' = IF o.result # 0 THEN [dir EXCEPT !.pos = o.result] ELSE dir

DirEnter(name, a, l) ==
    /\ op' = name /\ args' = a /\ pc' = l
    /\ calls' = <<>> /\ intr' = 0 /\ ret' = 0
    /\ UNCHANGED <<fdtab, vec, plat, errno, out, dir, cp>>

\* args = <<buffer, bufferSize>>; out is the caller's DirectoryEntry.
SystemNative_ReadDirR ==
    \/ /\ pc = "idle" /\ dir.open
       /\ \E buffer \in {4096, 4097, 4103},
             bufferSize \in {SystemNative_GetReadDirRBufferSize, SizeofDirent} :
            IF plat.HAVE_READDIR_R /\ BufferTooSmall(buffer, bufferSize)
               THEN /\ op' = "ReadDirR" /\ args' = <<buffer, bufferSize>> /\ pc' = "done"
                    /\ calls' = <<>> /\ intr' = 0 /\ ret' = ErrnoValue("ERANGE")
                    /\ UNCHANGED <<fdtab, vec, plat, errno, out, dir, cp>>
               ELSE DirEnter("ReadDirR", <<buffer, bufferSize>>, "read")
    \/ \* AIX: errno = 0; int error = readdir_r(dir, entry, &result);
       /\ pc = "read" /\ op = "ReadDirR" /\ plat.HAVE_READDIR_R /\ plat.AIX
       /\ \E o \in ReadDirRAixOutcomes :
             /\ DirNative("readdir_r", o)
             /\ errno' = ClearErrnoThenCall(o)
             /\ IF o.error = 9
                   THEN /\ out' = ZeroEntry
                        /\ ret' = AixResult(errno')
                   ELSE /\ out' = ConvertDirent(NativeDirent(o.result))
                        /\ ret' = 0
       /\ pc' = "done"
       /\ UNCHANGED <<fdtab, vec, plat, op, args, intr, cp>>
    \/ \* while ((error = readdir_r(dir, entry, &result)) && errno == EINTR);
       /\ pc = "read" /\ op = "ReadDirR" /\ plat.HAVE_READDIR_R /\ ~plat.AIX
       /\ \E o \in ReadDirROutcomes :
             /\ errno' = IF o.err = "NONE" THEN errno ELSE o.err
             /\ DirNative("readdir_r", o)
             /\ IF o.error # 0 /\ errno' = "EINTR"
                   THEN /\ intr < MaxIntr
                        /\ intr' = intr + 1
                        /\ UNCHANGED <<pc, ret, out>>
                   ELSE /\ pc' = "done" /\ intr' = intr
                        /\ ret' = ReadDirRResult(o.error, o.result)
                        /\ out' = IF o.error # 0 \/ o.result = 0
                                     THEN ZeroEntry
                                     ELSE ConvertDirent(NativeDirent(o.result))
       /\ UNCHANGED <<fdtab, vec, plat, op, args, cp>>
    \/ \* errno = 0; struct dirent* entry = readdir(dir);
       /\ pc = "read" /\ op = "ReadDirR" /\ ~plat.HAVE_READDIR_R
       /\ \E o \in ReadDirOutcomes :
             /\ DirNative("readdir", o)
             /\ errno' = ClearErrnoThenCall(o)
             /\ IF o.result = 0
                   THEN /\ out' = ZeroEntry
                        /\ ret' = ReadDirResult(errno')
                   ELSE /\ out' = ConvertDirent(NativeDirent(o.result))
                        /\ ret' = 0
       /\ pc' = "done"
       /\ UNCHANGED <<fdtab, vec, plat, op, args, intr, cp>>

\* The result is the DIR*: 0 for NULL, 1 for the cursor.
SystemNative_OpenDir ==
    \/ /\ pc = "idle" /\ ~dir.open
       /\ \E p \in Paths : DirEnter("OpenDir", <<p>>, "loop")
    \/ /\ pc = "loop" /\ op = "OpenDir"
       /\ \/ \E n \in 0 .. MaxEntries :
               /\ calls' = Append(calls, [fn |-> "opendir", args |-> args, res |-> 1,
                                          err |-> "NONE", result |-> 0])
               /\ dir' = [open |-> TRUE, n |-> n, pos |-> 0]
               /\ ret' = 1 /\ pc' = "done"
               /\ UNCHANGED <<errno, intr>>
          \/ \E e \in DirErrs :
               /\ e = "EINTR" => intr < MaxIntr
               /\ calls' = Append(calls, [fn |-> "opendir", args |-> args, res |-> 0,
                                          err |-> e, result |-> 0])
               /\ errno' = e
               /\ intr' = IF e = "EINTR" THEN intr + 1 ELSE intr
               /\ ret' = 0
               /\ pc' = IF e = "EINTR" THEN "loop" ELSE "done"
               /\ UNCHANGED dir
       /\ UNCHANGED <<fdtab, vec, plat, op, args, out, cp>>

\* result = closedir(dir); if (result < 0 && errno == EINTR) result = 0;
SystemNative_CloseDir ==
    \/ /\ pc = "idle" /\ dir.open
       /\ DirEnter("CloseDir", <<1>>, "call")
    \/ /\ pc = "call" /\ op = "CloseDir"
       /\ \E o \in {Ok(0)} \cup {Fail(e) : e \in DirErrs} :
             /\ calls' = Append(calls, [fn |-> "closedir", args |-> args, res |-> o.res,
                                        err |-> o.err, result |-> 0])
             /\ errno' = IF o.res < 0 THEN o.err ELSE errno
             /\ ret' = IF o.res < 0 /\ errno' = "EINTR" THEN 0 ELSE o.res
       /\ dir' = NoDir
       /\ pc' = "done"
       /\ UNCHANGED <<fdtab, vec, plat, op, args, intr, out, cp>>

\* The caller takes the result; its entry record, the cursor and errno stay.
DirReturn ==
    /\ pc = "done"
    /\ pc' = "idle" /\ op' = "none" /\ args' = <<>>
    /\ calls' = <<>> /\ intr' = 0 /\ ret' = 0
    /\ UNCHANGED <<fdtab, vec, plat, errno, out, dir, cp>>

\* The three enumeration strategies, with and without d_type and d_namlen.
DirPlatforms ==
    {p \in [HAVE_O_CLOEXEC : {TRUE}, HAVE_F_DUPFD_CLOEXEC : {TRUE}, HAVE_SHM_OPEN : {TRUE},
            HAVE_STAT_BIRTHTIME : {FALSE}, SIZE_T_BITS : {64},
            HAVE_READDIR_R : BOOLEAN, AIX : BOOLEAN, HAVE_D_TYPE : BOOLEAN,
            HAVE_DIRENT_NAME_LEN : BOOLEAN] :
        p.AIX => (p.HAVE_READDIR_R /\ ~p.HAVE_D_TYPE)}

InitDir ==
    /\ plat \in DirPlatforms
    /\ errno = "NONE"
    /\ pc = "idle" /\ op = "none" /\ args = <<>>
    /\ ret = 0 /\ calls = <<>> /\ intr = 0 /\ out = StaleEntry
    /\ dir = NoDir /\ cp = NoCopy /\ vec = NoVec /\ fdtab = NoFds

NextDir ==
    \/ SystemNative_OpenDir
    \/ SystemNative_ReadDirR
    \/ SystemNative_CloseDir
    \/ DirReturn

SpecDir == InitDir /\ [][NextDir]_vars

---------------------------------------------------------------------------
\* SystemNative_CopyFile and CopyFile_ReadWrite on one source and one destination.

\* The largest length of the source file, and of the length hint.
MaxFileLen == 2
\* The most native calls of one CopyFile call that fail with EINTR.
MaxCopyIntr == 1

\* const int BufferLength = 80 * 1024 * sizeof(char);
BufferLength == 81920
\* S_IRWXU | S_IRWXG | S_IRWXO
PermissionMask == 511
\* The source's st_mode: a regular file (S_IFREG) with the set-uid bit, rwxr-xr-x.
SourceModes == {35309}
\* What an unpopulated struct stat may hold in st_mode.
GarbageModes == {0, 16895}

Min(a, b) == IF a < b THEN a ELSE b

\* The bytes of a source of length len: all different.
Content(len) == [i \in 1 .. len |-> 10 + i]

\* The bytes of the source not yet consumed through inFd.
Avail == Len(cp.src) - cp.inPos
\* The first n bytes of seq, whatever the offset.
Chunk_FromStart(seq, from, n) == SubSeq(seq, 1, n)
\* The n bytes of seq that follow its first from bytes.
Chunk(seq, from, n) == SubSeq(seq, from + 1, from + n)

\* The builds: with fcopyfile nothing else is compiled in; HAVE_FUTIMES is
\* looked at only without HAVE_FUTIMENS.
CopyPlatforms ==
    {p \in [HAVE_FCOPYFILE : BOOLEAN, FICLONE : BOOLEAN, HAVE_SENDFILE_4 : BOOLEAN,
            HAVE_FUTIMENS : BOOLEAN, HAVE_FUTIMES : BOOLEAN] :
        /\ p.HAVE_FCOPYFILE => (~p.FICLONE /\ ~p.HAVE_SENDFILE_4 /\ p.HAVE_FUTIMENS)
        /\ p.HAVE_FUTIMENS => p.HAVE_FUTIMES}

\* The data taken for copied whatever the streaming tier achieved.
AfterSendfile_AlwaysCopied(copied) == "fstat"
\* Where CopyFile goes after the streaming tier.
AfterSendfile(copied) == IF ~copied THEN "malloc" ELSE "fstat"
\* The streaming tier entered without looking at the length hint.
AfterClone_IgnoresHint(copied, sourceLength) ==
    IF plat.HAVE_SENDFILE_4 /\ ~copied THEN "sendfile" ELSE AfterSendfile(copied)
\* Where CopyFile goes after the clone tier.
AfterClone(copied, sourceLength) ==
    IF plat.HAVE_SENDFILE_4 /\ ~copied /\ sourceLength # 0
       THEN "sendfile" ELSE AfterSendfile(copied)
\* Every failure of the timestamp step taken for fatal.
AfterTimes_Strict(r, e) == IF r # 0 THEN "done" ELSE "fchmod"
\* if (ret != 0 && errno != EPERM) return -1; then the permission copy.
AfterTimes(r, e) == IF r # 0 /\ e # "EPERM" THEN "done" ELSE "fchmod"

\* The inner loop left after one write, complete or not.
AfterWrite_OneWrite(bytesRead) == "read"
\* while (bytesRead > 0) { write ... bytesRead -= bytesWritten; }
AfterWrite(bytesRead) == IF bytesRead > 0 THEN "write" ELSE "read"

\* No sendfile error taken for "not supported".
SendFileNotSupported_Never(e) == FALSE
\* !(errno != EINVAL && errno != ENOSYS)
SendFileNotSupported(e) == e = "EINVAL" \/ e = "ENOSYS"

CopyOutcomes(okVals, errs) ==
    {Ok(v) : v \in okVals} \cup {Fail(e) : e \in errs}
    \cup (IF intr < MaxCopyIntr THEN {Fail("EINTR")} ELSE {})

CopyFile_Enter ==
    /\ pc = "idle"
    /\ \E len \in 0 .. MaxFileLen, sourceLength \in 0 .. MaxFileLen :
          /\ cp' = [active |-> TRUE, src |-> Content(len), inPos |-> 0, dst |-> <<>>,
                    sourceLength |-> sourceLength, copied |-> FALSE,
                    buffer |-> <<>>, offset |-> 0, bytesRead |-> 0,
                    statOk |-> FALSE, st_mode |-> 0, dstMode |-> -1, dstTimes |-> FALSE]
          /\ args' = <<3, 4, sourceLength>>
          /\ pc' = IF plat.HAVE_FCOPYFILE THEN "fcopyfile"
                   ELSE IF plat.FICLONE /\ sourceLength # 0 THEN "clone"
                   ELSE AfterClone(FALSE, sourceLength)
    /\ op' = "CopyFile"
    /\ calls' = <<>> /\ intr' = 0 /\ ret' = 0
    /\ UNCHANGED <<fdtab, vec, plat, errno, out, dir>>

\* return fcopyfile(inFd, outFd, NULL, COPYFILE_ALL) == 0 ? 0 : -1;
CopyFile_FCopyFile ==
    /\ pc = "fcopyfile" /\ op = "CopyFile"
    /\ \E o \in CopyOutcomes({0}, {"EIO"}) :
          /\ Native("fcopyfile", <<args[1], args[2]>>, o)
          /\ ret' = IF o.res = 0 THEN 0 ELSE -1
          /\ cp' = IF o.res = 0 THEN [cp EXCEPT !.dst = cp.src, !.copied = TRUE] ELSE cp
    /\ pc' = "done"
    /\ UNCHANGED <<fdtab, vec, plat, op, args, out, dir>>

\* while ((ret = ioctl(outFd, FICLONE, inFd)) < 0 && errno == EINTR); copied = ret == 0;
CopyFile_Clone ==
    /\ pc = "clone" /\ op = "CopyFile"
    /\ \E o \in CopyOutcomes({0}, {"ENOTSUP", "EIO"}) :
          /\ Native("ioctl", <<args[2], "FICLONE", args[1]>>, o)
          /\ ret' = o.res
          /\ IF o.res < 0 /\ errno' = "EINTR"
                THEN UNCHANGED <<pc, cp>>
                ELSE /\ cp' = IF o.res = 0
                                 THEN [cp EXCEPT !.dst = cp.src, !.copied = TRUE]
                                 ELSE cp
                     /\ pc' = AfterClone(o.res = 0, cp.sourceLength)
    /\ UNCHANGED <<fdtab, vec, plat, op, args, out, dir>>

\* One turn of the do-while around sendfile(outFd, inFd, NULL, sourceLength).
CopyFile_SendFile ==
    /\ pc = "sendfile" /\ op = "CopyFile"
    /\ \E o \in CopyOutcomes(0 .. Min(cp.sourceLength, Avail), {"EINVAL", "EIO"}) :
          /\ Native("sendfile", <<args[2], args[1], cp.sourceLength>>, o)
          /\ IF o.res < 0
                THEN IF ~SendFileNotSupported(errno')
                        THEN ret' = -1 /\ pc' = "done" /\ cp' = cp
                        ELSE ret' = ret /\ pc' = AfterSendfile(cp.sourceLength = 0) /\ cp' = cp
             ELSE IF o.res = 0
                THEN ret' = ret /\ pc' = AfterSendfile(cp.sourceLength = 0) /\ cp' = cp
             ELSE /\ ret' = ret
                  /\ cp' = [cp EXCEPT !.dst = cp.dst \o Chunk(cp.src, cp.inPos, o.res),
                                      !.inPos = cp.inPos + o.res,
                                      !.sourceLength = cp.sourceLength - o.res,
                                      !.copied = (cp.sourceLength - o.res = 0)]
                  /\ pc' = IF cp.sourceLength - o.res > 0
                              THEN "sendfile"
                              ELSE AfterSendfile(cp.sourceLength - o.res = 0)
    /\ UNCHANGED <<fdtab, vec, plat, op, args, out, dir>>

\* char* buffer = (char*)malloc(BufferLength); if (buffer == NULL) return -1;
CopyFile_ReadWrite_Malloc ==
    /\ pc = "malloc" /\ op = "CopyFile"
    /\ \/ /\ calls' = Append(calls, [fn |-> "malloc", args |-> <<BufferLength>>,
                                     res |-> 1, err |-> "NONE"])
          /\ pc' = "read" /\ UNCHANGED <<errno, ret>>
       \/ /\ calls' = Append(calls, [fn |-> "malloc", args |-> <<BufferLength>>,
                                     res |-> 0, err |-> "ENOMEM"])
          /\ errno' = "ENOMEM" /\ ret' = -1 /\ pc' = "done"
    /\ UNCHANGED <<fdtab, vec, plat, op, args, intr, out, dir, cp>>

\* while ((bytesRead = read(inFd, buffer, BufferLength)) < 0 && errno == EINTR);
CopyFile_ReadWrite_Read ==
    /\ pc = "read" /\ op = "CopyFile"
    /\ \E o \in CopyOutcomes(IF Avail = 0 THEN {0} ELSE 1 .. Min(Avail, BufferLength), {"EIO"}) :
          /\ Native("read", <<args[1], BufferLength>>, o)
          /\ IF o.res < 0 /\ errno' = "EINTR"
                THEN UNCHANGED <<pc, ret, cp>>
             ELSE IF o.res = -1
                THEN ret' = -1 /\ pc' = "done" /\ cp' = cp
             ELSE IF o.res = 0
                THEN ret' = ret /\ pc' = "fstat" /\ cp' = cp
             ELSE /\ ret' = ret /\ pc' = "write"
                  /\ cp' = [cp EXCEPT !.buffer = Chunk(cp.src, cp.inPos, o.res),
                                      !.inPos = cp.inPos + o.res,
                                      !.offset = 0, !.bytesRead = o.res]
    /\ UNCHANGED <<fdtab, vec, plat, op, args, out, dir>>

\* while ((bytesWritten = write(outFd, buffer + offset, (size_t)bytesRead)) < 0 && errno == EINTR);
CopyFile_ReadWrite_Write ==
    /\ pc = "write" /\ op = "CopyFile"
    /\ \E o \in CopyOutcomes(1 .. cp.bytesRead, {"EIO"}) :
          /\ Native("write", <<args[2], cp.offset, cp.bytesRead>>, o)
          /\ IF o.res < 0 /\ errno' = "EINTR"
                THEN UNCHANGED <<pc, ret, cp>>
             ELSE IF o.res = -1
                THEN ret' = -1 /\ pc' = "done" /\ cp' = cp
             ELSE /\ ret' = ret
                  /\ cp' = [cp EXCEPT !.dst = cp.dst \o Chunk(cp.buffer, cp.offset, o.res),
                                      !.bytesRead = cp.bytesRead - o.res,
                                      !.offset = cp.offset + o.res]
                  /\ pc' = AfterWrite(cp.bytesRead - o.res)
    /\ UNCHANGED <<fdtab, vec, plat, op, args, out, dir>>

\* while ((ret = fstat_(inFd, &sourceStat)) < 0 && errno == EINTR);
CopyFile_FStat ==
    /\ pc = "fstat" /\ op = "CopyFile"
    /\ \E o \in CopyOutcomes({0}, {"EPERM", "EIO"}), m \in SourceModes :
          /\ Native("fstat", <<args[1]>>, o)
          /\ ret' = o.res
          /\ IF o.res < 0 /\ errno' = "EINTR"
                THEN UNCHANGED <<pc, cp>>
             ELSE IF o.res = 0
                THEN /\ cp' = [cp EXCEPT !.statOk = TRUE, !.st_mode = m]
                     /\ pc' = IF plat.HAVE_FUTIMENS \/ plat.HAVE_FUTIMES
                                 THEN "futimens" ELSE AfterTimes(0, errno')
             ELSE cp' = cp /\ pc' = AfterTimes(o.res, errno')
    /\ UNCHANGED <<fdtab, vec, plat, op, args, out, dir>>

\* while ((ret = futimens(outFd, origTimes)) < 0 && errno == EINTR);  (or futimes)
CopyFile_FUTimens ==
    /\ pc = "futimens" /\ op = "CopyFile"
    /\ \E o \in CopyOutcomes({0}, {"EPERM", "EIO"}) :
          /\ Native(IF plat.HAVE_FUTIMENS THEN "futimens" ELSE "futimes", <<args[2]>>, o)
          /\ ret' = o.res
          /\ IF o.res < 0 /\ errno' = "EINTR"
                THEN UNCHANGED <<pc, cp>>
                ELSE /\ cp' = IF o.res = 0 THEN [cp EXCEPT !.dstTimes = TRUE] ELSE cp
                     /\ pc' = AfterTimes(o.res, errno')
    /\ UNCHANGED <<fdtab, vec, plat, op, args, out, dir>>

\* while ((ret = fchmod(outFd, sourceStat.st_mode & (S_IRWXU | S_IRWXG | S_IRWXO))) < 0
\*        && errno == EINTR);
\* sourceStat is read whether or not fstat filled it in.
CopyFile_FChMod ==
    /\ pc = "fchmod" /\ op = "CopyFile"
    /\ \E o \in CopyOutcomes({0}, {"EPERM", "EIO"}),
          m \in IF cp.statOk THEN {cp.st_mode} ELSE GarbageModes :
          /\ Native("fchmod", <<args[2], BitAnd(m, PermissionMask)>>, o)
          /\ IF o.res < 0 /\ errno' = "EINTR"
                THEN UNCHANGED <<pc, cp>> /\ ret' = o.res
                ELSE /\ cp' = IF o.res = 0
                                 THEN [cp EXCEPT !.dstMode = BitAnd(m, PermissionMask)]
                                 ELSE cp
                     /\ ret' = IF o.res # 0 /\ errno' # "EPERM" THEN -1 ELSE 0
                     /\ pc' = "done"
    /\ UNCHANGED <<fdtab, vec, plat, op, args, out, dir>>

SystemNative_CopyFile ==
    \/ CopyFile_Enter
    \/ CopyFile_FCopyFile
    \/ CopyFile_Clone
    \/ CopyFile_SendFile
    \/ CopyFile_ReadWrite_Malloc
    \/ CopyFile_ReadWrite_Read
    \/ CopyFile_ReadWrite_Write
    \/ CopyFile_FStat
    \/ CopyFile_FUTimens
    \/ CopyFile_FChMod

\* The caller takes the result; the files are closed by the caller.
CopyReturn ==
    /\ pc = "done"
    /\ pc' = "idle" /\ op' = "none" /\ args' = <<>>
    /\ calls' = <<>> /\ intr' = 0 /\ ret' = 0
    /\ cp' = NoCopy
    /\ UNCHANGED <<fdtab, vec, plat, errno, out, dir>>

InitCopy ==
    /\ plat \in CopyPlatforms
    /\ errno = "NONE"
    /\ pc = "idle" /\ op = "none" /\ args = <<>>
    /\ ret = 0 /\ calls = <<>> /\ intr = 0 /\ out = NoOutput
    /\ dir = NoDir /\ cp = NoCopy /\ vec = NoVec /\ fdtab = NoFds

NextCopy ==
    \/ SystemNative_CopyFile
    \/ CopyReturn

SpecCopy == InitCopy /\ [][NextCopy]_vars

---------------------------------------------------------------------------
\* SystemNative_PReadV and SystemNative_PWriteV on one file.

\* The most entries of an IOVector array, and the largest Count of an entry.
MaxVectors == 2
MaxVecLen == 2
\* The largest length of the file, and the most calls that fail with EINTR.
MaxVecFile == 3
MaxVecIntr == 1

\* The arrays of the entries' Counts a caller may pass.
VectorInputs == UNION {[1 .. n -> 0 .. MaxVecLen] : n \in 0 .. MaxVectors}

\* The builds: with preadv / pwritev, or with the loop over pread / pwrite.
VecPlatforms == [HAVE_PREADV : BOOLEAN, HAVE_PWRITEV : BOOLEAN]

RECURSIVE SumTo(_, _)
SumTo(lens, n) == IF n = 0 THEN 0 ELSE SumTo(lens, n - 1) + lens[n]

\* The bytes of the file at offset off that are there to read.
AvailAt(file, off) == IF Len(file) > off THEN Len(file) - off ELSE 0

\* How many bytes a read of n bytes at off may transfer: 0 only at the end of
\* the file or for n = 0.
ReadCounts(file, off, n) ==
    IF Min(n, AvailAt(file, off)) = 0 THEN {0} ELSE 1 .. Min(n, AvailAt(file, off))
\* How many bytes a write of n bytes may transfer.
WriteCounts(n) == IF n = 0 THEN {0} ELSE 1 .. n

\* The bytes the caller put in buffer i: all different.
VecData(i, n) == [k \in 1 .. n |-> 100 * i + k]

\* The file after bytes were written at offset off (a hole reads as 0).
WriteAt(file, off, bytes) ==
    [j \in 1 .. (IF off + Len(bytes) > Len(file) THEN off + Len(bytes) ELSE Len(file)) |->
        IF j > off /\ j <= off + Len(bytes) THEN bytes[j - off]
        ELSE IF j <= Len(file) THEN file[j] ELSE 0]

\* The buffers filled in order with the n bytes that follow offset off.
RECURSIVE Scatter(_, _, _, _)
Scatter(file, off, n, lens) ==
    IF lens = <<>> THEN <<>>
    ELSE <<Chunk(file, off, Min(n, Head(lens)))>>
         \o Scatter(file, off + Min(n, Head(lens)), n - Min(n, Head(lens)), Tail(lens))

\* The bytes of the first bufs buffers, each up to its Count, cut at n bytes.
RECURSIVE Gather(_, _)
Gather(lens, i) ==
    IF i > Len(lens) THEN <<>> ELSE VecData(i, lens[i]) \o Gather(lens, i + 1)

VecOutcomes(okVals) ==
    {Ok(v) : v \in okVals} \cup {Fail(e) : e \in {"EIO"}}
    \cup (IF intr < MaxVecIntr THEN {Fail("EINTR")} ELSE {})

\* The loop gone on after an incomplete transfer.
VecIncomplete_Never(current, count) == FALSE
\* if (current != (int64_t)vector.Count) return count;
VecIncomplete(current, count) == current # count

\* Every entry's call issued at the caller's offset.
VecOffset_Fixed(fileOffset, count) == fileOffset
\* (off_t)(fileOffset + count)
VecOffset(fileOffset, count) == fileOffset + count

\* return count > 0 ? count : current;
VecFailureResult(count, current) == IF count > 0 THEN count ELSE current

\* args = <<fd, the entries' Counts, vectorCount, fileOffset>>.
Vec_Enter(name, native) ==
    /\ pc = "idle"
    /\ \E size \in 0 .. MaxVecFile, lens \in VectorInputs, fileOffset \in 0 .. MaxVecFile + 1 :
          /\ vec' = [active |-> TRUE, file |-> Content(size), i |-> 0, count |-> 0]
          /\ args' = <<3, lens, Len(lens), fileOffset>>
          /\ out' = [k \in 1 .. Len(lens) |-> <<>>]
          /\ IF native THEN pc' = "native"
             ELSE IF Len(lens) = 0 THEN pc' = "done"
             ELSE pc' = "vloop"
    /\ op' = name
    /\ calls' = <<>> /\ intr' = 0 /\ ret' = 0
    /\ UNCHANGED <<fdtab, plat, errno, dir, cp>>

\* while ((count = preadv(fd, vectors, vectorCount, fileOffset)) < 0 && errno == EINTR);
PReadV_Native ==
    /\ pc = "native" /\ op = "PReadV"
    /\ \E o \in VecOutcomes(ReadCounts(vec.file, args[4], SumTo(args[2], args[3]))) :
          /\ Native("preadv", <<args[1], args[2], args[3], args[4]>>, o)
          /\ ret' = o.res
          /\ IF o.res < 0 /\ errno' = "EINTR"
                THEN UNCHANGED <<pc, out>>
                ELSE /\ pc' = "done"
                     /\ out' = IF o.res < 0 THEN out
                               ELSE Scatter(vec.file, args[4], o.res, args[2])
    /\ UNCHANGED <<fdtab, plat, op, args, dir, cp, vec>>

\* One pread of the loop, with what follows it up to the next pread or the return.
PReadV_Loop ==
    /\ pc = "vloop" /\ op = "PReadV"
    /\ LET i == vec.i + 1
           Count == args[2][i]
           off == VecOffset(args[4], vec.count)
       IN  \E o \in VecOutcomes(ReadCounts(vec.file, off, Count)) :
             /\ Native("pread", <<args[1], i, Count, off>>, o)
             /\ IF o.res < 0 /\ errno' = "EINTR"
                   THEN UNCHANGED <<pc, ret, out, vec>>
                ELSE IF o.res < 0
                   THEN /\ ret' = VecFailureResult(vec.count, o.res)
                        /\ pc' = "done" /\ UNCHANGED <<out, vec>>
                ELSE /\ out' = [out EXCEPT ![i] = Chunk(vec.file, off, o.res)]
                     /\ vec' = [vec EXCEPT !.count = vec.count + o.res, !.i = i]
                     /\ ret' = vec.count + o.res
                     /\ pc' = IF VecIncomplete(o.res, Count) \/ i = args[3]
                                 THEN "done" ELSE "vloop"
    /\ UNCHANGED <<fdtab, plat, op, args, dir, cp>>

SystemNative_PReadV ==
    \/ Vec_Enter("PReadV", plat.HAVE_PREADV)
    \/ PReadV_Native
    \/ PReadV_Loop

\* while ((count = pwritev(fd, vectors, vectorCount, fileOffset)) < 0 && errno == EINTR);
PWriteV_Native ==
    /\ pc = "native" /\ op = "PWriteV"
    /\ \E o \in VecOutcomes(WriteCounts(SumTo(args[2], args[3]))) :
          /\ Native("pwritev", <<args[1], args[2], args[3], args[4]>>, o)
          /\ ret' = o.res
          /\ IF o.res < 0 /\ errno' = "EINTR"
                THEN UNCHANGED <<pc, vec>>
                ELSE /\ pc' = "done"
                     /\ vec' = IF o.res < 0 THEN vec
                               ELSE [vec EXCEPT !.file = WriteAt(vec.file, args[4],
                                                    SubSeq(Gather(args[2], 1), 1, o.res))]
    /\ UNCHANGED <<fdtab, plat, op, args, out, dir, cp>>

\* One pwrite of the loop, with what follows it up to the next pwrite or the return.
PWriteV_Loop ==
    /\ pc = "vloop" /\ op = "PWriteV"
    /\ LET i == vec.i + 1
           Count == args[2][i]
           off == VecOffset(args[4], vec.count)
       IN  \E o \in VecOutcomes(WriteCounts(Count)) :
             /\ Native("pwrite", <<args[1], i, Count, off>>, o)
             /\ IF o.res < 0 /\ errno' = "EINTR"
                   THEN UNCHANGED <<pc, ret, vec>>
                ELSE IF o.res < 0
                   THEN /\ ret' = VecFailureResult(vec.count, o.res)
                        /\ pc' = "done" /\ UNCHANGED vec
                ELSE /\ vec' = [vec EXCEPT !.count = vec.count + o.res, !.i = i,
                                           !.file = WriteAt(vec.file, off,
                                                            SubSeq(VecData(i, Count), 1, o.res))]
                     /\ ret' = vec.count + o.res
                     /\ pc' = IF VecIncomplete(o.res, Count) \/ i = args[3]
                                 THEN "done" ELSE "vloop"
    /\ UNCHANGED <<fdtab, plat, op, args, out, dir, cp>>

SystemNative_PWriteV ==
    \/ Vec_Enter("PWriteV", plat.HAVE_PWRITEV)
    \/ PWriteV_Native
    \/ PWriteV_Loop

\* The caller takes the result; errno stays.
VecReturn ==
    /\ pc = "done"
    /\ pc' = "idle" /\ op' = "none" /\ args' = <<>>
    /\ calls' = <<>> /\ intr' = 0 /\ ret' = 0 /\ out' = NoOutput
    /\ vec' = NoVec
    /\ UNCHANGED <<fdtab, plat, errno, dir, cp>>

InitVec ==
    /\ plat \in VecPlatforms
    /\ errno = "NONE"
    /\ pc = "idle" /\ op = "none" /\ args = <<>>
    /\ ret = 0 /\ calls = <<>> /\ intr = 0 /\ out = NoOutput
    /\ dir = NoDir /\ cp = NoCopy /\ vec = NoVec /\ fdtab = NoFds

NextVec ==
    \/ SystemNative_PReadV
    \/ SystemNative_PWriteV
    \/ VecReturn

SpecVec == InitVec /\ [][NextVec]_vars

---------------------------------------------------------------------------
\* SystemNative_GetFileSystemType.  An int64_t is its four 16-bit words, most
\* significant first, in two's complement.

\* A hexadecimal literal of at most eight digits, whose halves are hi and lo,
\* read as an int.
Hex32_AsInt(hi, lo) ==
    IF hi >= 32768 THEN <<65535, 65535, hi, lo>> ELSE <<0, 0, hi, lo>>

\* The same literal as C reads it, assigned to an int64_t: its type is int when
\* the value fits and unsigned int otherwise, so the value is kept.
Hex32(hi, lo) == <<0, 0, hi, lo>>

\* (int64_t)-1
MinusOne64 == <<65535, 65535, 65535, 65535>>

\* The if / else-if chain over statfsArgs.f_basetype, in the order of the source.
FileSystemTable ==
    <<
       <<"adfs", Hex32(\H0000, \HADF5)>>,
       <<"affs", Hex32(\H0000, \HADFF)>>,
       <<"afs", Hex32(\H5346, \H414F)>>,
       <<"anoninode", Hex32(\H0904, \H1934)>>,
       <<"aufs", Hex32(\H6175, \H6673)>>,
       <<"autofs", Hex32(\H0000, \H0187)>>,
       <<"autofs4", Hex32(\H6D4A, \H556D)>>,
       <<"befs", Hex32(\H4246, \H5331)>>,
       <<"bdevfs", Hex32(\H6264, \H6576)>>,
       <<"bfs", Hex32(\H1BAD, \HFACE)>>,
       <<"bpf_fs", Hex32(\HCAFE, \H4A11)>>,
       <<"binfmt_misc", Hex32(\H4249, \H4E4D)>>,
       <<"bootfs", Hex32(\HA56D, \H3FF9)>>,
       <<"btrfs", Hex32(\H9123, \H683E)>>,
       <<"ceph", Hex32(\H00C3, \H6400)>>,
       <<"cgroupfs", Hex32(\H0027, \HE0EB)>>,
       <<"cgroup2fs", Hex32(\H6367, \H7270)>>,
       <<"cifs", Hex32(\HFF53, \H4D42)>>,
       <<"coda", Hex32(\H7375, \H7245)>>,
       <<"coherent", Hex32(\H012F, \HF7B7)>>,
       <<"configfs", Hex32(\H6265, \H6570)>>,
       <<"cpuset", Hex32(\H0102, \H1994)>>,
       <<"cramfs", Hex32(\H28CD, \H3D45)>>,
       <<"ctfs", Hex32(\H0102, \H1994)>>,
       <<"debugfs", Hex32(\H6462, \H6720)>>,
       <<"dev", Hex32(\H0000, \H1373)>>,
       <<"devfs", Hex32(\H0000, \H1373)>>,
       <<"devpts", Hex32(\H0000, \H1CD1)>>,
       <<"ecryptfs", Hex32(\H0000, \HF15F)>>,
       <<"efs", Hex32(\H0041, \H4A53)>>,
       <<"exofs", Hex32(\H0000, \H5DF5)>>,
       <<"ext", Hex32(\H0000, \H137D)>>,
       <<"ext2_old", Hex32(\H0000, \HEF51)>>,
       <<"ext2", Hex32(\H0000, \HEF53)>>,
       <<"ext3", Hex32(\H0000, \HEF53)>>,
       <<"ext4", Hex32(\H0000, \HEF53)>>,
       <<"f2fs", Hex32(\HF2F5, \H2010)>>,
       <<"fat", Hex32(\H0000, \H4006)>>,
       <<"fd", Hex32(\H00F0, \H0D1E)>>,
       <<"fhgfs", Hex32(\H1983, \H0326)>>,
       <<"fuse", Hex32(\H6573, \H5546)>>,
       <<"fuseblk", Hex32(\H6573, \H5546)>>,
       <<"fusectl", Hex32(\H6573, \H5543)>>,
       <<"futexfs", Hex32(\H0BAD, \H1DEA)>>,
       <<"gfsgfs2", Hex32(\H0116, \H1970)>>,
       <<"gfs2", Hex32(\H0116, \H1970)>>,
       <<"gpfs", Hex32(\H4750, \H4653)>>,
       <<"hfs", Hex32(\H0000, \H4244)>>,
       <<"hfsplus", Hex32(\H0000, \H482B)>>,
       <<"hpfs", Hex32(\HF995, \HE849)>>,
       <<"hugetlbfs", Hex32(\H9584, \H58F6)>>,
       <<"inodefs", Hex32(\H1130, \H7854)>>,
       <<"inotifyfs", Hex32(\H2BAD, \H1DEA)>>,
       <<"isofs", Hex32(\H0000, \H9660)>>,
       <<"jffs", Hex32(\H0000, \H07C0)>>,
       <<"jffs2", Hex32(\H0000, \H72B6)>>,
       <<"jfs", Hex32(\H3153, \H464A)>>,
       <<"kafs", Hex32(\H6B41, \H4653)>>,
       <<"lofs", Hex32(\H0000, \HEF53)>>,
       <<"logfs", Hex32(\HC97E, \H8168)>>,
       <<"lustre", Hex32(\H0BD0, \H0BD0)>>,
       <<"minix_old", Hex32(\H0000, \H137F)>>,
       <<"minix", Hex32(\H0000, \H138F)>>,
       <<"minix2", Hex32(\H0000, \H2468)>>,
       <<"minix2v2", Hex32(\H0000, \H2478)>>,
       <<"minix3", Hex32(\H0000, \H4D5A)>>,
       <<"mntfs", Hex32(\H0102, \H1994)>>,
       <<"mqueue", Hex32(\H1980, \H0202)>>,
       <<"msdos", Hex32(\H0000, \H4D44)>>,
       <<"nfs", Hex32(\H0000, \H6969)>>,
       <<"nfsd", Hex32(\H6E66, \H7364)>>,
       <<"nilfs", Hex32(\H0000, \H3434)>>,
       <<"novell", Hex32(\H0000, \H564C)>>,
       <<"ntfs", Hex32(\H5346, \H544E)>>,
       <<"objfs", Hex32(\H0102, \H1994)>>,
       <<"ocfs2", Hex32(\H7461, \H636F)>>,
       <<"openprom", Hex32(\H0000, \H9FA1)>>,
       <<"omfs", Hex32(\HC299, \H3D87)>>,
       <<"overlay", Hex32(\H794C, \H7630)>>,
       <<"overlayfs", Hex32(\H794C, \H764F)>>,
       <<"panfs", Hex32(\HAAD7, \HAAEA)>>,
       <<"pipefs", Hex32(\H5049, \H5045)>>,
       <<"proc", Hex32(\H0000, \H9FA0)>>,
       <<"pstorefs", Hex32(\H6165, \H676C)>>,
       <<"qnx4", Hex32(\H0000, \H002F)>>,
       <<"qnx6", Hex32(\H6819, \H1122)>>,
       <<"ramfs", Hex32(\H8584, \H58F6)>>,
       <<"reiserfs", Hex32(\H5265, \H4973)>>,
       <<"romfs", Hex32(\H0000, \H7275)>>,
       <<"rootfs", Hex32(\H5346, \H4846)>>,
       <<"rpc_pipefs", Hex32(\H6759, \H6969)>>,
       <<"samba", Hex32(\H0000, \H517B)>>,
       <<"securityfs", Hex32(\H7363, \H6673)>>,
       <<"selinux", Hex32(\HF97C, \HFF8C)>>,
       <<"sffs", Hex32(\H786F, \H4256)>>,
       <<"sharefs", Hex32(\H0102, \H1994)>>,
       <<"smb", Hex32(\H0000, \H517B)>>,
       <<"smb2", Hex32(\HFE53, \H4D42)>>,
       <<"sockfs", Hex32(\H534F, \H434B)>>,
       <<"squashfs", Hex32(\H7371, \H7368)>>,
       <<"sysfs", Hex32(\H6265, \H6572)>>,
       <<"sysv2", Hex32(\H012F, \HF7B6)>>,
       <<"sysv4", Hex32(\H012F, \HF7B5)>>,
       <<"tmpfs", Hex32(\H0102, \H1994)>>,
       <<"tracefs", Hex32(\H7472, \H6163)>>,
       <<"ubifs", Hex32(\H2405, \H1905)>>,
       <<"udf", Hex32(\H1501, \H3346)>>,
       <<"ufs", Hex32(\H0001, \H1954)>>,
       <<"ufscigam", Hex32(\H5419, \H0100)>>,
       <<"ufs2", Hex32(\H1954, \H0119)>>,
       <<"usbdevice", Hex32(\H0000, \H9FA2)>>,
       <<"v9fs", Hex32(\H0102, \H1997)>>,
       <<"vagrant", Hex32(\H786F, \H4256)>>,
       <<"vboxfs", Hex32(\H786F, \H4256)>>,
       <<"vmhgfs", Hex32(\HBACB, \HACBC)>>,
       <<"vxfs", Hex32(\HA501, \HFCF5)>>,
       <<"vzfs", Hex32(\H565A, \H4653)>>,
       <<"xenfs", Hex32(\HABBA, \H1974)>>,
       <<"xenix", Hex32(\H012F, \HF7B4)>>,
       <<"xfs", Hex32(\H5846, \H5342)>>,
       <<"xia", Hex32(\H012F, \HD16D)>>,
       <<"udev", Hex32(\H0102, \H1994)>>,
       <<"zfs", Hex32(\H2FC1, \H2FC1)>>
    >>

\* strcmp(a, b) == 0
StrEq(a, b) == a = b

\* result after the chain: the first name that compares equal gives its value,
\* and with none result stays -1.
FsLookup(name) ==
    LET hits == {i \in 1 .. Len(FileSystemTable) : StrEq(name, FileSystemTable[i][1])}
    IN  IF hits = {} THEN MinusOne64
        ELSE FileSystemTable[CHOOSE i \in hits : \A j \in hits : i <= j][2]

TableNames == {FileSystemTable[i][1] : i \in 1 .. Len(FileSystemTable)}

\* The names f_basetype may hold: those of the table, and names that are not in
\* it though they begin, end or differ only in case from one that is.
OtherNames == {"", "ex", "ext5", "tmpf", "tmpfs2", "TMPFS", "fs", "newfs"}
FsNames == TableNames \cup OtherNames

\* The f_type words of a host with a numeric type field, as their two halves.
FsTypes == {<<\H0102, \H1994>>, <<0, \HEF53>>, <<\HCAFE, \H4A11>>}

\* (int64_t)statfsArgs.f_type for a field of the host's type.
CastFType(w) ==
    IF plat.F_TYPE = "int32" THEN Hex32_AsInt(w[1], w[2]) ELSE <<0, 0, w[1], w[2]>>

\* HAVE_STATFS stands for HAVE_STATFS_VFS || HAVE_STATFS_MOUNT; without it the
\* build has !HAVE_NON_LEGACY_STATFS (any other does not compile).
FsPlatforms ==
    {p \in [HAVE_STATFS : BOOLEAN, F_TYPE : {"int32", "uint32", "none"}] :
        p.HAVE_STATFS <=> p.F_TYPE # "none"}

\* args = <<fd>>.  The answer of the host is logged with the call: its f_type
\* or its f_basetype.
SystemNative_GetFileSystemType ==
    \/ /\ pc = "idle"
       /\ \E fd \in Fds : Enter("GetFileSystemType", <<fd>>, "loop")
    \/ /\ pc = "loop" /\ op = "GetFileSystemType" /\ plat.HAVE_STATFS
       /\ \E o \in Outcomes({0}), w \in FsTypes :
             /\ calls' = Append(calls, [fn |-> "fstatfs", args |-> args, res |-> o.res,
                                        err |-> o.err,
                                        f_type |-> IF o.res = 0 THEN w ELSE <<>>])
             /\ errno' = IF o.res < 0 THEN o.err ELSE errno
             /\ intr' = IF o.err = "EINTR" THEN intr + 1 ELSE intr
             /\ IF o.res = -1 /\ errno' = "EINTR"
                   THEN UNCHANGED <<pc, ret>>
                   ELSE /\ pc' = "done"
                        /\ ret' = IF o.res = -1 THEN MinusOne64 ELSE CastFType(w)
       /\ UNCHANGED <<fdtab, vec, dir, cp, plat, op, args, out>>
    \/ /\ pc = "loop" /\ op = "GetFileSystemType" /\ ~plat.HAVE_STATFS
       /\ \E o \in Outcomes({0}), name \in FsNames :
             /\ calls' = Append(calls, [fn |-> "fstatvfs", args |-> args, res |-> o.res,
                                        err |-> o.err,
                                        f_basetype |-> IF o.res = 0 THEN name ELSE ""])
             /\ errno' = IF o.res < 0 THEN o.err ELSE errno
             /\ intr' = IF o.err = "EINTR" THEN intr + 1 ELSE intr
             /\ IF o.res = -1 /\ errno' = "EINTR"
                   THEN UNCHANGED <<pc, ret>>
                   ELSE /\ pc' = "done"
                        /\ ret' = IF o.res = -1 THEN MinusOne64 ELSE FsLookup(name)
       /\ UNCHANGED <<fdtab, vec, dir, cp, plat, op, args, out>>

InitFs ==
    /\ plat \in FsPlatforms
    /\ errno = "NONE"
    /\ pc = "idle" /\ op = "none" /\ args = <<>>
    /\ ret = 0 /\ calls = <<>> /\ intr = 0 /\ out = NoOutput
    /\ dir = NoDir /\ cp = NoCopy /\ vec = NoVec /\ fdtab = NoFds

NextFs ==
    \/ SystemNative_GetFileSystemType
    \/ Return

SpecFs == InitFs /\ [][NextFs]_vars

---------------------------------------------------------------------------
\* SystemNative_ReadDirR on a build without readdir_r, called by two threads,
\* each on its own cursor.  Every variable is a function of the thread here:
\* pc[t], errno[t], dir[t], out[t], ... are thread t's position, its error
\* indicator, its DIR, its caller's entry record.  readdir on different DIRs
\* may run concurrently (the source's assumption on the platform), so one
\* readdir is one step on the cursor it is given.

Threads == {1, 2}

\* errno names one cell for every thread.
ErrnoCell_Shared(t) == 1
\* errno is the calling thread's own cell.
ErrnoCell(t) == t

ThreadPlatforms == {p \in DirPlatforms : ~p.HAVE_READDIR_R}

\* Thread t enters SystemNative_ReadDirR(dir[t], ...).
Thread_Enter(t) ==
    /\ pc[t] = "idle"
    /\ pc' = [pc EXCEPT ![t] = "clear"]
    /\ op' = [op EXCEPT ![t] = "ReadDirR"]
    /\ args' = [args EXCEPT ![t] = <<0, 0>>]
    /\ calls' = [calls EXCEPT ![t] = <<>>]
    /\ ret' = [ret EXCEPT ![t] = 0]
    /\ UNCHANGED <<fdtab, vec, plat, errno, out, dir, cp, intr>>

\* errno = 0;
Thread_ClearErrno(t) ==
    /\ pc[t] = "clear"
    /\ errno' = [errno EXCEPT ![ErrnoCell(t)] = "NONE"]
    /\ pc' = [pc EXCEPT ![t] = "read"]
    /\ UNCHANGED <<fdtab, vec, plat, op, args, ret, calls, out, dir, cp, intr>>

\* struct dirent* entry = readdir(dir);
Thread_ReadDir(t) ==
    /\ pc[t] = "read"
    /\ \E o \in ReadDirOutcomesAt(dir[t]) :
          /\ calls' = [calls EXCEPT ![t] =
                          Append(@, [fn |-> "readdir", args |-> <<dir[t].pos>>,
                                     res |-> o.error, err |-> o.err, result |-> o.result])]
          /\ dir' = IF o.result # 0 THEN [dir EXCEPT ![t].pos = o.result] ELSE dir
          /\ errno' = IF o.err = "NONE" THEN errno
                      ELSE [errno EXCEPT ![ErrnoCell(t)] = o.err]
          /\ ret' = [ret EXCEPT ![t] = o.result]
    /\ pc' = [pc EXCEPT ![t] = "test"]
    /\ UNCHANGED <<fdtab, vec, plat, op, args, out, cp, intr>>

\* if (entry == NULL) { memset; if (errno != 0) return errno; return -1; }
\* ConvertDirent(entry, outputEntry); return 0;     (ret[t] held entry)
Thread_Classify(t) ==
    /\ pc[t] = "test"
    /\ IF ret[t] = 0
          THEN /\ out' = [out EXCEPT ![t] = ZeroEntry]
               /\ ret' = [ret EXCEPT ![t] = ReadDirResult(errno[ErrnoCell(t)])]
          ELSE /\ out' = [out EXCEPT ![t] = ConvertDirent(NativeDirent(ret[t]))]
               /\ ret' = [ret EXCEPT ![t] = 0]
    /\ pc' = [pc EXCEPT ![t] = "done"]
    /\ UNCHANGED <<fdtab, vec, plat, errno, op, args, calls, dir, cp, intr>>

\* Thread t's caller takes the result.
Thread_Return(t) ==
    /\ pc[t] = "done"
    /\ pc' = [pc EXCEPT ![t] = "idle"]
    /\ op' = [op EXCEPT ![t] = "none"]
    /\ args' = [args EXCEPT ![t] = <<>>]
    /\ UNCHANGED <<fdtab, vec, plat, errno, ret, calls, out, dir, cp, intr>>

InitThreads ==
    /\ plat \in ThreadPlatforms
    /\ errno = [t \in Threads |-> "NONE"]
    /\ pc = [t \in Threads |-> "idle"]
    /\ op = [t \in Threads |-> "none"]
    /\ args = [t \in Threads |-> <<>>]
    /\ ret = [t \in Threads |-> 0]
    /\ calls = [t \in Threads |-> <<>>]
    /\ out = [t \in Threads |-> StaleEntry]
    /\ dir \in [Threads -> {[open |-> TRUE, n |-> n, pos |-> 0] : n \in 0 .. MaxEntries}]
    /\ intr = 0 /\ cp = NoCopy /\ vec = NoVec /\ fdtab = NoFds

NextThreads ==
    \E t \in Threads :
       \/ Thread_Enter(t)
       \/ Thread_ClearErrno(t)
       \/ Thread_ReadDir(t)
       \/ Thread_Classify(t)
       \/ Thread_Return(t)

SpecThreads == InitThreads /\ [][NextThreads]_vars

---------------------------------------------------------------------------
\* SystemNative_Pipe.  The host hands out descriptors 5 and 6; fdtab.open are
\* the descriptors open, fdtab.cloexec those with FD_CLOEXEC set.  close
\* releases its descriptor whatever it returns.

PipeFds == <<5, 6>>
PipeFlagInputs == {0, PAL_O_CLOEXEC, PAL_O_CREAT, PAL_O_CLOEXEC + 1, -1}

\* A build has pipe2 only where it has O_CLOEXEC.
PipePlatforms ==
    {p \in [HAVE_PIPE2 : BOOLEAN, HAVE_O_CLOEXEC : BOOLEAN] :
        p.HAVE_PIPE2 => p.HAVE_O_CLOEXEC}

\* flags after the switch, for the two values it lets through.
PipeNativeFlags(flags) ==
    IF flags = PAL_O_CLOEXEC /\ plat.HAVE_O_CLOEXEC THEN O_CLOEXEC ELSE flags

\* (flags & O_CLOEXEC) != 0, or (flags & PAL_O_CLOEXEC) != 0 without O_CLOEXEC
PipeWantsCloexec(nflags) ==
    IF plat.HAVE_O_CLOEXEC THEN BitAnd(nflags, O_CLOEXEC) # 0
    ELSE BitAnd(nflags, PAL_O_CLOEXEC) # 0

\* errno after the closes, left as the closes set it.
RestoredErrno_Lost(tmpErrno, current) == current
\* int tmpErrno = errno; close(...); close(...); errno = tmpErrno;
RestoredErrno(tmpErrno, current) == tmpErrno

CloseOutcomes == OutcomesNoIntr({0}) \cup {Fail("EINTR")}

\* switch (flags): args = <<flags>>.
Pipe_Enter ==
    /\ pc = "idle"
    /\ \E flags \in PipeFlagInputs :
          IF flags \notin {0, PAL_O_CLOEXEC}
             THEN Reject("Pipe", <<flags>>, -1, "EINVAL")
             ELSE Enter("Pipe", <<flags>>, "pipe")

\* while ((result = pipe2(pipeFds, flags)) < 0 && errno == EINTR);  or pipe(pipeFds)
Pipe_Create ==
    /\ pc = "pipe" /\ op = "Pipe"
    /\ LET nflags == PipeNativeFlags(args[1])
       IN  \E o \in Outcomes({0}) :
              /\ IF plat.HAVE_PIPE2 THEN Native("pipe2", <<nflags>>, o)
                                    ELSE Native("pipe", <<>>, o)
              /\ ret' = o.res
              /\ IF o.res = 0
                    THEN /\ out' = [written |-> TRUE, pipeFds |-> PipeFds]
                         /\ fdtab' = [fdtab EXCEPT
                               !.open = {PipeFds[1], PipeFds[2]},
                               !.cloexec = IF plat.HAVE_PIPE2 /\ BitAnd(nflags, O_CLOEXEC) # 0
                                              THEN {PipeFds[1], PipeFds[2]} ELSE {}]
                    ELSE UNCHANGED <<out, fdtab>>
              /\ pc' = IF o.res < 0 /\ errno' = "EINTR" THEN "pipe"
                       ELSE IF ~plat.HAVE_PIPE2 /\ PipeWantsCloexec(nflags) /\ o.res = 0
                               THEN "setfd0"
                       ELSE "done"
    /\ UNCHANGED <<vec, dir, cp, plat, op, args>>

\* while ((result = fcntl(pipeFds[k], F_SETFD, FD_CLOEXEC)) < 0 && errno == EINTR);
\* for k = 0 and, if that gave 0, for k = 1; if (result != 0) tmpErrno = errno.
Pipe_SetFD(k) ==
    /\ pc = (IF k = 1 THEN "setfd0" ELSE "setfd1") /\ op = "Pipe"
    /\ \E o \in Outcomes({0}) :
          /\ Native("fcntl", <<PipeFds[k], "F_SETFD", FD_CLOEXEC>>, o)
          /\ ret' = o.res
          /\ IF o.res < 0 /\ errno' = "EINTR"
                THEN UNCHANGED <<pc, fdtab>>
             ELSE IF o.res = 0
                THEN /\ fdtab' = [fdtab EXCEPT !.cloexec = @ \cup {PipeFds[k]}]
                     /\ pc' = IF k = 1 THEN "setfd1" ELSE "done"
             ELSE /\ fdtab' = [fdtab EXCEPT !.tmpErrno = errno']
                  /\ pc' = "close0"
    /\ UNCHANGED <<vec, dir, cp, plat, op, args, out>>

\* close(pipeFds[0]);
Pipe_Close0 ==
    /\ pc = "close0" /\ op = "Pipe"
    /\ \E o \in CloseOutcomes :
          Native("close", <<PipeFds[1]>>, o)
    /\ fdtab' = [fdtab EXCEPT !.open = @ \ {PipeFds[1]}, !.cloexec = @ \ {PipeFds[1]}]
    /\ pc' = "close1"
    /\ UNCHANGED <<vec, dir, cp, plat, op, args, ret, out>>

\* close(pipeFds[1]); errno = tmpErrno; return result;
Pipe_Close1 ==
    /\ pc = "close1" /\ op = "Pipe"
    /\ \E o \in CloseOutcomes :
          /\ calls' = Append(calls, [fn |-> "close", args |-> <<PipeFds[2]>>,
                                     res |-> o.res, err |-> o.err])
          /\ intr' = IF o.err = "EINTR" THEN intr + 1 ELSE intr
          /\ errno' = RestoredErrno(fdtab.tmpErrno, IF o.res < 0 THEN o.err ELSE errno)
    /\ fdtab' = [fdtab EXCEPT !.open = @ \ {PipeFds[2]}, !.cloexec = @ \ {PipeFds[2]}]
    /\ pc' = "done"
    /\ UNCHANGED <<vec, dir, cp, plat, op, args, ret, out>>

SystemNative_Pipe ==
    \/ Pipe_Enter
    \/ Pipe_Create
    \/ Pipe_SetFD(1)
    \/ Pipe_SetFD(2)
    \/ Pipe_Close0
    \/ Pipe_Close1

\* The caller takes the result and, in time, closes the descriptors it got.
PipeReturn ==
    /\ pc = "done"
    /\ pc' = "idle" /\ op' = "none" /\ args' = <<>>
    /\ calls' = <<>> /\ intr' = 0 /\ ret' = 0 /\ out' = NoOutput
    /\ fdtab' = NoFds
    /\ UNCHANGED <<vec, dir, cp, plat, errno>>

InitPipe ==
    /\ plat \in PipePlatforms
    /\ errno = "NONE"
    /\ pc = "idle" /\ op = "none" /\ args = <<>>
    /\ ret = 0 /\ calls = <<>> /\ intr = 0 /\ out = NoOutput
    /\ dir = NoDir /\ cp = NoCopy /\ vec = NoVec /\ fdtab = NoFds

NextPipe ==
    \/ SystemNative_Pipe
    \/ PipeReturn

SpecPipe == InitPipe /\ [][NextPipe]_vars

---------------------------------------------------------------------------
\* Reading the record of a call.

Interrupted(c) == c.res < 0 /\ c.err = "EINTR"
CallsOf(fn) == SelectSeq(calls, LAMBDA c : c.fn = fn)
Returned(name) == pc = "done" /\ op = name

\* The duplication calls of Dup (not the fcntl that sets close-on-exec afterwards).
DupCalls ==
    SelectSeq(calls, LAMBDA c : c.fn = "fcntl" /\ c.args[2] \in {"F_DUPFD", "F_DUPFD_CLOEXEC"})

\* The native call an entry point wraps.
PrimaryFn(name) ==
    CASE name = "Open" -> "open"
      [] name = "Unlink" -> "unlink"
      [] name = "MkDir" -> "mkdir"
      [] name = "ChMod" -> "chmod"
      [] name = "FChMod" -> "fchmod"
      [] name = "FLock" -> "flock"
      [] name = "ChDir" -> "chdir"
      [] name = "LSeek" -> "lseek"
      [] name = "Link" -> "link"
      [] name = "SymLink" -> "symlink"
      [] name = "FTruncate" -> "ftruncate"
      [] name = "Rename" -> "rename"
      [] name = "RmDir" -> "rmdir"
      [] name = "LockFileRegion" -> "fcntl"
      [] name = "PRead" -> "pread"
      [] name = "PWrite" -> "pwrite"
      [] OTHER -> "none"

\* A portable open-flag word the translator must refuse: a bit outside the
\* access-mode mask and the five auxiliary bits, or an access mode that is
\* not read-only, write-only or read-write.
OpenFlagsInvalid(f) ==
    \/ BitAnd(f, PAL_O_ACCESS_MODE_MASK) \notin {PAL_O_RDONLY, PAL_O_WRONLY, PAL_O_RDWR}
    \/ BitAnd(f, BitNot(PAL_O_ACCESS_MODE_MASK + PAL_O_CLOEXEC + PAL_O_CREAT
                        + PAL_O_EXCL + PAL_O_TRUNC + PAL_O_SYNC)) # 0

---------------------------------------------------------------------------
C1Ops ==
    {"Open", "Unlink", "MkDir", "ChMod", "FChMod", "FLock", "ChDir", "LSeek", "Link",
     "SymLink", "FTruncate", "Rename", "RmDir", "LockFileRegion", "PRead", "PWrite"}

\* C1: in Open, Unlink, MkDir, ChMod, FChMod, FLock, ChDir, LSeek, Link, SymLink,
\* FTruncate, Rename, RmDir, LockFileRegion, PRead and PWrite, a native call that
\* fails with EINTR is followed by the same native call with the same arguments
\* (the entry point has not returned in between), the value returned is the result
\* of the last native call, which was not interrupted, and the caller never sees a
\* failure with errno EINTR.
C1_InterruptedCallReissued ==
    op \in C1Ops =>
        LET prim == CallsOf(PrimaryFn(op))
            n == Len(prim)
        IN  /\ \A i \in 1 .. n :
                  Interrupted(prim[i]) =>
                      IF i < n THEN prim[i + 1].args = prim[i].args ELSE pc = "loop"
            /\ pc = "done" =>
                  /\ n > 0 => (ret = prim[n].res /\ ~Interrupted(prim[n]))
                  /\ ~(ret < 0 /\ errno = "EINTR")

\* Rename has returned success after being interrupted twice.
C1_Witness ==
    /\ Returned("Rename") /\ ret = 0
    /\ Len(calls) = 3 /\ Interrupted(calls[1]) /\ Interrupted(calls[2])

C2Ops == {"Stat", "FStat", "LStat", "ShmOpen", "ShmUnlink", "FcntlGetFD", "FcntlSetFD"}

\* C2: Stat, FStat, LStat, ShmOpen, ShmUnlink, FcntlGetFD and FcntlSetFD never
\* return a failure whose error code is EINTR.
C2_NeverReturnsInterrupted ==
    (pc = "done" /\ op \in C2Ops) => ~(ret < 0 /\ errno = "EINTR")

\* C3: OpenDir, CloseDir and ReadDirR (every strategy) return only the outcome of
\* a native call that was not interrupted: the last native call did not fail with
\* EINTR, and the result is neither the interrupted condition nor a success put
\* in its place.
C3_DirCallsRetried ==
    (pc = "done" /\ op \in {"OpenDir", "CloseDir", "ReadDirR"} /\ calls # <<>>) =>
        LET last == calls[Len(calls)]
        IN  /\ last.err # "EINTR" /\ last.res # ErrnoValue("EINTR")
            /\ op = "ReadDirR" => ret # ErrnoValue("EINTR")
            /\ op = "CloseDir" => ~(ret < 0 /\ errno = "EINTR")
            /\ op = "OpenDir" => ~(ret = 0 /\ errno = "EINTR")

\* C4: SystemNative_CopyFile never returns failure with errno holding the
\* interrupted-by-signal condition, whichever tier the interruption struck.
C4_CopyFileAbsorbsInterruption ==
    (pc = "done" /\ op = "CopyFile") => ~(ret < 0 /\ errno = "EINTR")

\* C5: when the native open of Open, or the native duplication of Dup, fails with
\* an error E other than EINTR, the call returns -1 and the caller's errno is E,
\* on every build (also where close-on-exec is set by a later fcntl).
C5_NativeErrorUnchanged ==
    (pc = "done" /\ op \in {"Open", "Dup"}) =>
        LET prim == IF op = "Open" THEN CallsOf("open") ELSE DupCalls
            last == prim[Len(prim)]
        IN  (Len(prim) > 0 /\ last.res < 0) => (ret = -1 /\ errno = last.err)

\* C6: FSync returns 0 when the native flush succeeds and -1 when it fails with an
\* error other than EINTR; a failure is never reported by a non-negative value.
C6_FSyncResult ==
    Returned("FSync") =>
        LET last == calls[Len(calls)]
        IN  /\ last.res >= 0 => ret = 0
            /\ last.res < 0 => ret = -1

\* C7: Open (and ShmOpen where shared memory is supported) called with an invalid
\* portable flag word returns -1 with EINVAL and issues no native call.
C7_InvalidOpenFlagsRejected ==
    (/\ op \in {"Open", "ShmOpen"}
     /\ op = "ShmOpen" => plat.HAVE_SHM_OPEN
     /\ OpenFlagsInvalid(args[2]))
        => (pc = "done" /\ ret = -1 /\ errno = "EINVAL" /\ calls = <<>>)

\* Open has refused a flag word whose access mode is 3, and one with an unknown bit.
C7_Witness ==
    /\ Returned("Open") /\ ret = -1 /\ errno = "EINVAL"
    /\ \/ BitAnd(args[2], PAL_O_ACCESS_MODE_MASK) = 3
       \/ args[2] = PAL_O_RDWR + PAL_O_CREAT + PAL_O_EXCL + 512

\* C8: FcntlSetFD called with an invalid portable flag word reports EINVAL and
\* never passes the translation's failure value -1 to the native fcntl.
C8_FcntlSetFDFailsFast ==
    (op = "FcntlSetFD" /\ OpenFlagsInvalid(args[2])) =>
        /\ \A i \in 1 .. Len(calls) : calls[i].args[3] # -1
        /\ pc = "done" => (ret = -1 /\ errno = "EINVAL")

\* A protection, mapping or msync word with a bit outside the known ones.
ProtInvalid(p) == BitAnd(p, BitNot(PAL_PROT_READ + PAL_PROT_WRITE + PAL_PROT_EXEC)) # 0
MapFlagsInvalid(f) ==
    BitAnd(f, BitNot(PAL_MAP_SHARED + PAL_MAP_PRIVATE + PAL_MAP_ANONYMOUS)) # 0
MSyncFlagsInvalid(f) == BitAnd(f, BitNot(PAL_MS_SYNC + PAL_MS_ASYNC + PAL_MS_INVALIDATE)) # 0

\* C9 as stated: MMap with an invalid protection or mapping word returns NULL
\* with EINVAL and issues no native mmap; protection 0 is passed on as PROT_NONE;
\* MSync with an invalid word returns -1 with EINVAL and issues no native msync.
C9_Original ==
    /\ (op = "MMap" /\ (ProtInvalid(args[3]) \/ MapFlagsInvalid(args[4])))
          => (pc = "done" /\ ret = 0 /\ errno = "EINVAL" /\ calls = <<>>)
    /\ (op = "MMap" /\ args[3] = PAL_PROT_NONE) =>
          \A i \in 1 .. Len(calls) : calls[i].args[3] = PROT_NONE
    /\ (op = "MSync" /\ MSyncFlagsInvalid(args[3]))
          => (pc = "done" /\ ret = -1 /\ errno = "EINVAL" /\ calls = <<>>)

\* C9, amended: the same for a length that fits size_t; a length above SIZE_MAX
\* is refused first, with ERANGE, also without a native call.
C9_ValidateThenTranslate ==
    /\ (op = "MMap" /\ (ProtInvalid(args[3]) \/ MapFlagsInvalid(args[4])))
          => /\ pc = "done" /\ ret = 0 /\ calls = <<>>
             /\ errno = IF GtSizeMax(args[2]) THEN "ERANGE" ELSE "EINVAL"
    /\ (op = "MMap" /\ args[3] = PAL_PROT_NONE) =>
          /\ \A i \in 1 .. Len(calls) : calls[i].args[3] = PROT_NONE
          /\ (pc = "done" /\ ~GtSizeMax(args[2]) /\ ~MapFlagsInvalid(args[4]))
                => Len(calls) = 1
    /\ (op = "MSync" /\ MSyncFlagsInvalid(args[3]))
          => /\ pc = "done" /\ ret = -1 /\ calls = <<>>
             /\ errno = IF GtSizeMax(args[2]) THEN "ERANGE" ELSE "EINVAL"

\* MMap has refused a protection word with an unknown bit, for a length that fits.
C9_Witness ==
    /\ Returned("MMap") /\ ~GtSizeMax(args[2])
    /\ args[3] = 8 /\ ~MapFlagsInvalid(args[4])
    /\ ret = 0 /\ errno = "EINVAL" /\ calls = <<>>

\* C10: LockFileRegion with offset < 0 or length < 0 returns -1 with EINVAL and
\* issues no native call, whatever the lock kind; otherwise every native call it
\* issues is the region lock with l_whence SEEK_SET, l_start = offset and
\* l_len = length, and it does not return without having issued one.
C10_LockRegionValidated ==
    op = "LockFileRegion" =>
        IF args[2] < 0 \/ args[3] < 0
           THEN pc = "done" /\ ret = -1 /\ errno = "EINVAL" /\ calls = <<>>
           ELSE /\ \A i \in 1 .. Len(calls) :
                     /\ calls[i].fn = "fcntl" /\ calls[i].args[1] = args[1]
                     /\ calls[i].args[2] = "F_SETLK" /\ calls[i].args[4] = "SEEK_SET"
                     /\ calls[i].args[5] = args[2] /\ calls[i].args[6] = args[3]
                /\ pc = "done" => Len(calls) >= 1

\* LockFileRegion has refused a negative length given with a valid offset.
C10_Witness ==
    /\ Returned("LockFileRegion") /\ args[2] = 5 /\ args[3] = -1
    /\ ret = -1 /\ errno = "EINVAL" /\ calls = <<>>

---------------------------------------------------------------------------
\* Reading the record of a directory read.

AllZero(e) == e = [Name |-> 0, InodeType |-> 0, NameLength |-> 0]

\* The native read c failed: a non-zero result (9 with errno untouched is the
\* end of the directory on AIX), or errno set by the call.
NativeReadFailed(c) ==
    \/ c.err # "NONE"
    \/ c.res # 0 /\ ~(plat.AIX /\ c.res = 9)

\* The caller's record holds the k-th entry of the directory.
HoldsEntry(e, k) ==
    /\ e.Name = NativeDirent(k).d_name
    /\ e.InodeType = IF plat.HAVE_D_TYPE THEN NativeDirent(k).d_type ELSE 0
    /\ e.NameLength = IF plat.HAVE_DIRENT_NAME_LEN THEN NativeDirent(k).d_namlen ELSE -1

ReadDirRReturned == pc = "done" /\ op = "ReadDirR" /\ calls # <<>>

\* C11: on a cursor over N entries, a ReadDirR call (with a buffer of the
\* required size) whose native read does not fail issues one native read; when
\* k < N entries were returned before, it returns 0 with entry k+1 in the record
\* and the cursor one further; when all N were returned, it returns -1 with an
\* all-zero record. So N calls succeed, each with the next entry, and the call
\* after them reports end-of-stream with no entry content.
C11_EnumerationThenEndOfStream ==
    (ReadDirRReturned /\ \A i \in 1 .. Len(calls) : ~NativeReadFailed(calls[i])) =>
        LET before == calls[1].args[1]
        IN  /\ Len(calls) = 1
            /\ dir.pos <= dir.n
            /\ IF before < dir.n
                  THEN ret = 0 /\ dir.pos = before + 1 /\ HoldsEntry(out, before + 1)
                  ELSE ret = -1 /\ dir.pos = dir.n /\ AllZero(out)

\* Both entries of a directory of two were returned, and the next read has
\* reported end-of-stream with an all-zero record.
C11_Witness ==
    /\ ReadDirRReturned /\ dir.n = 2 /\ calls[1].args[1] = 2
    /\ ~NativeReadFailed(calls[1])
    /\ ret = -1 /\ AllZero(out)

\* C12: every ReadDirR return other than 0 leaves the output record all zero:
\* end-of-stream, native read failure, and the too-small-buffer failure ERANGE.
C12_NonSuccessZeroesEntry ==
    (pc = "done" /\ op = "ReadDirR" /\ ret # 0) => AllZero(out)

\* C13: in the reentrant strategy off AIX, for a call that reached the native
\* read: it returns 0 with the entry in the record iff the last native read
\* returned 0 with an entry; -1 iff it returned 0 with NULL; and the native
\* read's positive result iff that result was not 0. The classes are disjoint.
C13_ThreeOutcomes ==
    (ReadDirRReturned /\ plat.HAVE_READDIR_R /\ ~plat.AIX) =>
        LET last == calls[Len(calls)]
        IN  /\ (ret = 0) <=> (last.res = 0 /\ last.result # 0)
            /\ ret = 0 => HoldsEntry(out, last.result)
            /\ (ret = -1) <=> (last.res = 0 /\ last.result = 0)
            /\ (ret > 0) <=> (last.res # 0)
            /\ ret > 0 => ret = last.res
            /\ ret >= -1

\* readdir_r has failed with EIO and ReadDirR has returned that error number.
C13_Witness ==
    /\ ReadDirRReturned /\ plat.HAVE_READDIR_R /\ ~plat.AIX
    /\ calls[Len(calls)].res = 5 /\ ret = 5 /\ AllZero(out)

\* C14: on AIX, whatever errno held before the call, ReadDirR issues one native
\* read with errno cleared first; a result 9 with errno still clear gives -1
\* (end-of-stream), a result 9 with errno set to e gives e, never -1 and never 0;
\* a result 0 gives 0 with the entry.
C14_AixClearThenRecheck ==
    (ReadDirRReturned /\ plat.AIX) =>
        LET last == calls[Len(calls)]
        IN  /\ Len(calls) = 1
            /\ (last.res = 9 /\ last.err = "NONE") => (ret = -1 /\ AllZero(out))
            /\ (last.res = 9 /\ last.err # "NONE") =>
                  (ret = ErrnoValue(last.err) /\ ret > 0 /\ errno = last.err)
            /\ last.res = 0 => (ret = 0 /\ HoldsEntry(out, last.result))

\* On AIX the end of the directory was reported as -1 although errno held a
\* stale error when ReadDirR was called.
C14_Witness ==
    /\ ReadDirRReturned /\ plat.AIX
    /\ calls[1].errnoBefore # "NONE" /\ calls[1].res = 9 /\ calls[1].err = "NONE"
    /\ ret = -1

\* C15: without readdir_r, ReadDirR clears errno before the one native read; a
\* NULL with errno still clear gives -1, a NULL with errno set to e gives e, an
\* entry gives 0 with the entry converted; a stale errno from before the call
\* never makes an end-of-stream a failure.
C15_NonReentrantClearsErrno ==
    (ReadDirRReturned /\ ~plat.HAVE_READDIR_R) =>
        LET last == calls[Len(calls)]
        IN  /\ Len(calls) = 1
            /\ (last.result = 0 /\ last.err = "NONE") =>
                  (ret = -1 /\ errno = "NONE" /\ AllZero(out))
            /\ (last.result = 0 /\ last.err # "NONE") =>
                  (ret = ErrnoValue(last.err) /\ AllZero(out))
            /\ last.result # 0 => (ret = 0 /\ HoldsEntry(out, last.result))

\* readdir has failed with EIO and ReadDirR has returned EIO, after a call
\* entered with a stale errno.
C15_Witness ==
    /\ ReadDirRReturned /\ ~plat.HAVE_READDIR_R
    /\ calls[1].errnoBefore = "EACCES" /\ calls[1].result = 0 /\ calls[1].err = "EIO"
    /\ ret = 5

---------------------------------------------------------------------------
\* Reading the record of a copy.

CopyReturned == pc = "done" /\ op = "CopyFile"
CopyFns(fns) == {i \in 1 .. Len(calls) : calls[i].fn \in fns}
ManualFns == {"malloc", "read", "write"}

\* The bytes sent by the sendfile calls among the first n calls.
RECURSIVE SentIn(_)
SentIn(n) ==
    IF n = 0 THEN 0
    ELSE SentIn(n - 1)
         + (IF calls[n].fn = "sendfile" /\ calls[n].res > 0 THEN calls[n].res ELSE 0)

\* C16: when CopyFile returns 0 for a source of L bytes and a length hint of L or
\* of 0, the destination holds exactly the source's bytes, whichever tiers ran
\* and however short the sends, reads and writes were.
C16_CopyIsByteIdentical ==
    (CopyReturned /\ ret = 0 /\ args[3] \in {0, Len(cp.src)}) => cp.dst = cp.src

\* A two-byte source was copied with one byte sent by sendfile, which then sent
\* nothing, and the second byte read and written by the manual loop.
C16_Witness ==
    /\ CopyReturned /\ ret = 0 /\ args[3] = 2 /\ Len(cp.src) = 2 /\ cp.dst = cp.src
    /\ \E i \in CopyFns({"sendfile"}) : calls[i].res = 1
    /\ \E i \in CopyFns({"sendfile"}) : calls[i].res = 0
    /\ \E i \in CopyFns({"write"}) : calls[i].res = 1

\* C17: without fcopyfile, a length hint of 0 means no clone and no sendfile
\* call: the first call is the manual loop's, which reads until read returns 0,
\* so a success has copied every byte of a source that has some. With a hint
\* other than 0 the clone, where compiled in, is the first call; sendfile is
\* called only if no clone succeeded, and the manual loop runs only if no clone
\* succeeded and sendfile did not send the whole declared length.
C17_TierOrder ==
    (op = "CopyFile" /\ ~plat.HAVE_FCOPYFILE) =>
        /\ args[3] = 0 =>
              /\ CopyFns({"ioctl", "sendfile"}) = {}
              /\ calls # <<>> => calls[1].fn = "malloc"
              /\ (pc = "done" /\ ret = 0) =>
                    /\ cp.dst = cp.src
                    /\ \E i \in CopyFns({"read"}) : calls[i].res = 0
        /\ (args[3] # 0 /\ plat.FICLONE /\ calls # <<>>) => calls[1].fn = "ioctl"
        /\ \A i \in CopyFns({"sendfile"} \cup ManualFns) :
              \A j \in 1 .. i - 1 : ~(calls[j].fn = "ioctl" /\ calls[j].res = 0)
        /\ \A i \in CopyFns(ManualFns) : SentIn(i) < args[3] \/ args[3] = 0

\* A source of two bytes declared with length 0 was copied in full.
C17_Witness ==
    /\ CopyReturned /\ ret = 0 /\ args[3] = 0 /\ ~plat.HAVE_FCOPYFILE
    /\ plat.FICLONE /\ plat.HAVE_SENDFILE_4
    /\ Len(cp.src) = 2 /\ cp.dst = cp.src

C19_StreamingFailure ==
    op = "CopyFile" =>
        \A i \in CopyFns({"sendfile"}) :
            calls[i].res < 0 =>
                IF calls[i].err \in {"EINVAL", "ENOSYS"}
                   THEN IF i < Len(calls) THEN calls[i + 1].fn = "malloc" ELSE pc = "malloc"
                   ELSE i = Len(calls) /\ pc = "done" /\ ret = -1 /\ errno = calls[i].err

\* sendfile failed with EINVAL and the copy succeeded through the manual loop.
C19_Witness ==
    /\ CopyReturned /\ ret = 0 /\ Len(cp.src) = 2 /\ cp.dst = cp.src
    /\ \E i \in CopyFns({"sendfile"}) : calls[i].res < 0 /\ calls[i].err = "EINVAL"

\* C20: a clone that fails with an error other than "not supported" (and other
\* than the retried EINTR) is the last call CopyFile makes, and it returns -1.
C20_CloneFailureFatal ==
    op = "CopyFile" =>
        \A i \in CopyFns({"ioctl"}) :
            (calls[i].res < 0 /\ calls[i].err \notin {"ENOTSUP", "EINTR"}) =>
                /\ i = Len(calls)
                /\ pc = "done" => ret = -1

\* The calls of the manual loop, and the metadata calls.
RWFns == {"read", "write"}
TimesFns == {"futimens", "futimes"}
MetaFns == {"fstat", "futimens", "futimes", "fchmod"}
\* CopyFile_ReadWrite has returned 0: a read has returned 0.
ReadWriteDone == \E i \in CopyFns({"read"}) : calls[i].res = 0

\* C21: in CopyFile_ReadWrite a read follows only the malloc, an interrupted
\* read or a write that wrote all that was left of the chunk; the write after a
\* read starts at offset 0 with the chunk's length, the write after a short write
\* starts where that one ended with the rest, and an interrupted read or write
\* is issued again with the same arguments. The bytes written plus those still
\* in the buffer are the bytes read; when it returns 0 the destination holds
\* what was read up to end-of-file, and nothing was written for a source at its
\* end. A read or write failure other than EINTR is the last call: -1 with that
\* error.
C21_ManualLoop ==
    (op = "CopyFile" /\ CopyFns({"malloc"}) # {}) =>
        /\ \A i \in CopyFns(RWFns) :
              LET c == calls[i]
                  b == calls[i - 1]
              IN  /\ c.fn = "read" =>
                        \/ b.fn = "malloc"
                        \/ b.fn = "read" /\ Interrupted(b)
                        \/ b.fn = "write" /\ b.res = b.args[3]
                  /\ c.fn = "write" =>
                        \/ b.fn = "read" /\ b.res > 0 /\ c.args[2] = 0 /\ c.args[3] = b.res
                        \/ /\ b.fn = "write" /\ b.res > 0 /\ b.res < b.args[3]
                           /\ c.args[2] = b.args[2] + b.res /\ c.args[3] = b.args[3] - b.res
                        \/ b.fn = "write" /\ Interrupted(b) /\ c.args = b.args
                  /\ Interrupted(c) =>
                        IF i < Len(calls) THEN calls[i + 1].fn = c.fn /\ calls[i + 1].args = c.args
                                          ELSE pc = c.fn
                  /\ (c.res < 0 /\ ~Interrupted(c)) =>
                        (i = Len(calls) /\ pc = "done" /\ ret = -1 /\ errno = c.err)
        /\ cp.dst \o Chunk(cp.buffer, cp.offset, cp.bytesRead) = SubSeq(cp.src, 1, cp.inPos)
        /\ ReadWriteDone =>
              /\ cp.dst = cp.src /\ cp.inPos = Len(cp.src)
              /\ Len(cp.src) = 0 => CopyFns({"write"}) = {}

\* A chunk of two bytes was written by a short write of one byte and a second
\* write of the other byte at offset 1, and the copy succeeded.
C21_Witness ==
    /\ CopyReturned /\ ret = 0 /\ ReadWriteDone
    /\ \E i \in CopyFns({"write"}) :
          /\ calls[i].args[2] = 0 /\ calls[i].args[3] = 2 /\ calls[i].res = 1
          /\ calls[i + 1].fn = "write" /\ calls[i + 1].args[2] = 1 /\ calls[i + 1].res = 1

\* C22: without fcopyfile, no data call follows a metadata call, the metadata
\* calls start only when the data is copied (by the clone, by sendfile having
\* sent the declared length, or by the manual loop having read to the end), no
\* timestamp call follows a permission call, and the mode passed to fchmod is
\* the source's mode with only the nine permission bits kept.
C22_MetadataAfterData ==
    (op = "CopyFile" /\ ~plat.HAVE_FCOPYFILE) =>
        /\ \A i \in CopyFns(MetaFns) :
              /\ \A j \in i + 1 .. Len(calls) : calls[j].fn \in MetaFns
              /\ \/ \E j \in 1 .. i - 1 : calls[j].fn = "ioctl" /\ calls[j].res = 0
                 \/ SentIn(i) = args[3] /\ args[3] # 0
                 \/ \E j \in 1 .. i - 1 : calls[j].fn = "read" /\ calls[j].res = 0
        /\ \A i \in CopyFns({"fchmod"}) :
              /\ \A j \in i + 1 .. Len(calls) : calls[j].fn = "fchmod"
              /\ \E m \in SourceModes : calls[i].args[2] = BitAnd(m, 511)

\* C23: once the data is copied, a timestamp call that fails with EPERM is
\* followed by the permission call; a timestamp call that fails with another
\* error (EINTR is retried) is the last call and CopyFile returns -1; a
\* permission call that succeeds or fails with EPERM gives 0, one that fails
\* with another error gives -1.
C23_MetadataFailures ==
    CopyReturned =>
        /\ \A i \in CopyFns(TimesFns) :
              /\ (calls[i].res < 0 /\ calls[i].err = "EPERM") =>
                    (i < Len(calls) /\ calls[i + 1].fn = "fchmod")
              /\ (calls[i].res < 0 /\ calls[i].err \notin {"EPERM", "EINTR"}) =>
                    (i = Len(calls) /\ ret = -1)
        /\ \A i \in CopyFns({"fchmod"}) :
              ~Interrupted(calls[i]) =>
                  /\ i = Len(calls)
                  /\ ret = IF calls[i].res = 0 \/ calls[i].err = "EPERM" THEN 0 ELSE -1

\* The timestamp copy and the permission copy both failed with EPERM and
\* CopyFile returned 0 with the data copied.
C23_Witness ==
    /\ CopyReturned /\ ret = 0 /\ Len(cp.src) = 2 /\ cp.dst = cp.src
    /\ \E i \in CopyFns(TimesFns) : calls[i].res < 0 /\ calls[i].err = "EPERM"
    /\ \E i \in CopyFns({"fchmod"}) : calls[i].res < 0 /\ calls[i].err = "EPERM"

---------------------------------------------------------------------------
\* Reading the record of a vectored call.

\* The call runs the loop over pread / pwrite.
VecEmulated ==
    \/ op = "PReadV" /\ ~plat.HAVE_PREADV
    \/ op = "PWriteV" /\ ~plat.HAVE_PWRITEV

\* The bytes transferred by the first n calls.
RECURSIVE Transferred(_)
Transferred(n) ==
    IF n = 0 THEN 0 ELSE Transferred(n - 1) + (IF calls[n].res > 0 THEN calls[n].res ELSE 0)

\* C24: in the emulated PReadV / PWriteV, when an entry's call fails with an
\* error other than EINTR, the result is the error (-1) if no earlier entry's
\* call succeeded, and the bytes transferred so far if one did, also when that
\* one transferred 0 bytes for an entry of length 0.
C24_FailureAfterSuccess ==
    (pc = "done" /\ VecEmulated /\ calls # <<>> /\ calls[Len(calls)].res < 0) =>
        IF \E j \in 1 .. Len(calls) - 1 : calls[j].res >= 0
           THEN ret = Transferred(Len(calls))
           ELSE ret = -1

\* C25: in the emulated PReadV / PWriteV a call that transfers fewer bytes than
\* its entry's Count is the last call, and the result is the bytes transferred
\* so far; after a call that transfers exactly its entry's Count (0 for an entry
\* of length 0) the next entry's call follows, unless it was the last entry.
C25_StopsAtIncomplete ==
    VecEmulated =>
        \A k \in 1 .. Len(calls) :
            LET c == calls[k]
            IN  /\ (c.res >= 0 /\ c.res < c.args[3]) =>
                      (k = Len(calls) /\ pc = "done" /\ ret = Transferred(k))
                /\ (c.res = c.args[3] /\ c.args[2] < args[3]) =>
                      IF k < Len(calls) THEN calls[k + 1].args[2] = c.args[2] + 1
                                        ELSE pc = "vloop"
                /\ (c.res = c.args[3] /\ c.args[2] = args[3]) =>
                      (k = Len(calls) /\ pc = "done" /\ ret = Transferred(k))

\* After an entry of length 0, whose call transferred 0 bytes, the call for an
\* entry of length 2 transferred 1 byte and the operation returned 1.
C25_Witness ==
    /\ pc = "done" /\ VecEmulated /\ args[2] = <<0, 2>> /\ Len(calls) = 2
    /\ calls[1].res = 0 /\ calls[2].res = 1 /\ ret = 1

\* Every pread so far was interrupted or short only at the end of the file.
ShortOnlyAtEof ==
    \A k \in 1 .. Len(calls) :
        \/ Interrupted(calls[k])
        \/ calls[k].res = Min(calls[k].args[3], AvailAt(vec.file, calls[k].args[4]))

\* C26: in the emulated PReadV on a file of S bytes, with every pread short only
\* at the end of the file, the call for entry i is issued at the caller's offset
\* plus the Counts of the entries before it, and the operation returns
\* min(max(S - offset, 0), sum of the Counts) with the buffers holding, in entry
\* order, that many consecutive bytes of the file from the offset on.
C26_PReadVAsNative ==
    (op = "PReadV" /\ ~plat.HAVE_PREADV /\ ShortOnlyAtEof) =>
        /\ \A k \in 1 .. Len(calls) :
              calls[k].args[4] = args[4] + SumTo(args[2], calls[k].args[2] - 1)
        /\ pc = "done" =>
              /\ ret = Min(AvailAt(vec.file, args[4]), SumTo(args[2], args[3]))
              /\ \A i \in 1 .. args[3] :
                    LET before == Min(ret, SumTo(args[2], i - 1))
                        upto == Min(ret, SumTo(args[2], i))
                    IN  out[i] = SubSeq(vec.file, args[4] + before + 1, args[4] + upto)

\* Two entries of 2 bytes read from a file of 3 bytes: 2 bytes, then 1 byte at
\* offset 2, result 3.
C26_Witness ==
    /\ pc = "done" /\ op = "PReadV" /\ ~plat.HAVE_PREADV /\ ShortOnlyAtEof
    /\ args[2] = <<2, 2>> /\ args[4] = 0 /\ Len(vec.file) = 3
    /\ ret = 3 /\ out = << <<11, 12>>, <<13>> >>

---------------------------------------------------------------------------
\* Claims about SystemNative_GetFileSystemType.

\* The answer of the host to the call that has returned.
FsAnswer == calls[Len(calls)]
FsByName ==
    /\ Returned("GetFileSystemType") /\ ~plat.HAVE_STATFS
    /\ calls # <<>> /\ FsAnswer.res = 0

\* Reading an int64_t: zero, and the sign bit.
Zero64 == <<0, 0, 0, 0>>
IsNegative64(v) == v[1] >= 32768

\* The ids of the table.
TableIds == {FileSystemTable[i][2] : i \in 1 .. Len(FileSystemTable)}

---------------------------------------------------------------------------
\* Claims about the status calls.

StatOps == {"Stat", "FStat", "LStat"}
StatReturned == pc = "done" /\ op \in StatOps

\* C28: after a successful Stat, FStat or LStat the record's Flags hold
\* FILESTATUS_FLAGS_HAS_BIRTHTIME exactly on a build that has the creation
\* time, and then BirthTime and BirthTimeNsec are those of the native record;
\* on a build without it the bit is clear and both fields are 0.  After a
\* failed call the output record has not been written.
C28_BirthTime ==
    StatReturned =>
       /\ ret = 0 =>
             /\ out.written
             /\ BitAnd(out.Flags, FILESTATUS_FLAGS_HAS_BIRTHTIME) # 0
                   <=> plat.HAVE_STAT_BIRTHTIME
             /\ plat.HAVE_STAT_BIRTHTIME =>
                   \E st \in NativeStats :
                      /\ out.Mode = st.st_mode /\ out.Size = st.st_size
                      /\ out.BirthTime = st.st_birthtime
                      /\ out.BirthTimeNsec = st.st_birthtime_nsec
             /\ ~plat.HAVE_STAT_BIRTHTIME =>
                   out.BirthTime = 0 /\ out.BirthTimeNsec = 0
       /\ ret # 0 => out = NoOutput

\* FStat has succeeded on a build without the creation time, on a file whose
\* native record has one.
C28_Witness ==
    /\ Returned("FStat") /\ ret = 0 /\ ~plat.HAVE_STAT_BIRTHTIME
    /\ out.written /\ out.Mode = 33188 /\ out.BirthTime = 0

---------------------------------------------------------------------------
\* Claims about ConvertOpenFlags.

\* The open or shm_open call issued with the translated flags.
OpenIssued ==
    /\ op \in {"Open", "ShmOpen"} /\ calls # <<>>
    /\ calls[1].fn \in {"open", "shm_open"}

Has(word, bit) == BitAnd(word, bit) # 0

\* The portable word read back from a native one.
InverseOpenFlags(n) ==
    LET acc == BitAnd(n, BitOr(O_WRONLY, O_RDWR))
    IN  (IF acc = O_RDONLY THEN PAL_O_RDONLY
         ELSE IF acc = O_WRONLY THEN PAL_O_WRONLY ELSE PAL_O_RDWR)
        + (IF Has(n, O_CLOEXEC) THEN PAL_O_CLOEXEC ELSE 0)
        + (IF Has(n, O_CREAT) THEN PAL_O_CREAT ELSE 0)
        + (IF Has(n, O_EXCL) THEN PAL_O_EXCL ELSE 0)
        + (IF Has(n, O_TRUNC) THEN PAL_O_TRUNC ELSE 0)
        + (IF Has(n, O_SYNC) THEN PAL_O_SYNC ELSE 0)

\* The part of a portable word the native one carries on this build.
Carried(f) ==
    IF plat.HAVE_O_CLOEXEC THEN f ELSE BitAnd(f, BitNot(PAL_O_CLOEXEC))

\* C29: for a portable open-flag word the translator accepts, the native word
\* has the access mode of the portable one, has O_CREAT, O_EXCL, O_TRUNC and
\* O_SYNC exactly when the portable bit is set, and O_CLOEXEC exactly when the
\* build has it and the portable bit is set; reading the native word back
\* gives the portable access mode and auxiliary bits, so accepted words with
\* different access modes have different native words.
C29_OpenFlagsFaithful ==
    OpenIssued =>
          LET f == args[2]
              n == calls[1].args[2]
              acc == BitAnd(n, BitOr(O_WRONLY, O_RDWR))
              pacc == BitAnd(f, PAL_O_ACCESS_MODE_MASK)
          IN  /\ n = ConvertOpenFlags(f) /\ n # -1
              /\ acc = O_RDONLY <=> pacc = PAL_O_RDONLY
              /\ acc = O_WRONLY <=> pacc = PAL_O_WRONLY
              /\ acc = O_RDWR <=> pacc = PAL_O_RDWR
              /\ Has(n, O_CREAT) <=> Has(f, PAL_O_CREAT)
              /\ Has(n, O_EXCL) <=> Has(f, PAL_O_EXCL)
              /\ Has(n, O_TRUNC) <=> Has(f, PAL_O_TRUNC)
              /\ Has(n, O_SYNC) <=> Has(f, PAL_O_SYNC)
              /\ Has(n, O_CLOEXEC) <=> (plat.HAVE_O_CLOEXEC /\ Has(f, PAL_O_CLOEXEC))
              /\ InverseOpenFlags(n) = Carried(f)
              /\ \A b \in {PAL_O_RDONLY, PAL_O_WRONLY, PAL_O_RDWR} :
                    b # pacc => ConvertOpenFlags(f - pacc + b) # n

\* Open has been issued write-only with every auxiliary bit set, on a build
\* with O_CLOEXEC.
C29_Witness ==
    /\ OpenIssued /\ op = "Open" /\ pc = "done" /\ plat.HAVE_O_CLOEXEC
    /\ args[2] = PAL_O_WRONLY + PAL_O_CLOEXEC + PAL_O_CREAT + PAL_O_EXCL
                 + PAL_O_TRUNC + PAL_O_SYNC
    /\ calls[1].args[2] = O_WRONLY + O_CLOEXEC + O_CREAT + O_EXCL + O_TRUNC + O_SYNC

---------------------------------------------------------------------------
\* Claims about two threads in SystemNative_ReadDirR.

\* What thread t's read gives when it runs alone, from the answer c of its own
\* readdir: the entry and 0, the zeroed record and -1 at the end, the zeroed
\* record and the error number on a failure.
AloneOutcome(c) ==
    IF c.result # 0
       THEN [ret |-> 0, out |-> ConvertDirent(NativeDirent(c.args[1] + 1))]
       ELSE [ret |-> IF c.err = "NONE" THEN -1 ELSE ErrnoValue(c.err), out |-> ZeroEntry]

ThreadOutcomeAsAlone ==
    \A t \in Threads :
       pc[t] = "done" =>
          LET c == calls[t][Len(calls[t])]
          IN  /\ [ret |-> ret[t], out |-> out[t]] = AloneOutcome(c)
              /\ c.result # 0 => dir[t].pos = c.result

\* A step of one thread leaves what belongs to the other as it was.
ThreadStepIsLocal ==
    \E t \in Threads : \A u \in Threads \ {t} :
       /\ pc'[u] = pc[u] /\ errno'[u] = errno[u] /\ ret'[u] = ret[u]
       /\ out'[u] = out[u] /\ dir'[u] = dir[u] /\ calls'[u] = calls[u]

\* C30: with two threads each reading its own cursor through ReadDirR on a
\* build without readdir_r, whatever the interleaving, a read returns the
\* outcome and the entry record it returns when run alone: the other
\* thread's clearing or setting of errno does not change its end-of-stream or
\* failure result, and no step touches the other thread's state.
C30_ThreadsDoNotInterfere ==
    []ThreadOutcomeAsAlone /\ [][ThreadStepIsLocal]_vars

\* Thread 1 has returned end-of-stream while thread 2, whose readdir has just
\* failed, holds EIO in its errno and has not yet read it.
C30_Witness ==
    /\ pc[1] = "done" /\ ret[1] = -1 /\ out[1] = ZeroEntry
    /\ pc[2] = "test" /\ errno[2] = "EIO"
    /\ calls[2][Len(calls[2])].err = "EIO"

---------------------------------------------------------------------------
\* Claims about the length hint and the metadata of SystemNative_CopyFile.

\* C31: on a build with sendfile and without the clone, a CopyFile call that
\* was given a length hint h with 0 < h < L for a source of L bytes and that
\* returns 0 has written all L bytes of the source to the destination.
C31_HintIsOnlyAHint ==
    (/\ CopyReturned /\ ret = 0
     /\ plat.HAVE_SENDFILE_4 /\ ~plat.FICLONE /\ ~plat.HAVE_FCOPYFILE
     /\ 0 < args[3] /\ args[3] < Len(cp.src))
        => cp.dst = cp.src

\* C32: CopyFile issues fchmod, and futimens or futimes, only after an fstat of
\* the source that succeeded: after a failed fstat, EPERM included, no
\* permission or timestamp change is issued from the unpopulated record.
C32_MetadataFromSuccessfulStat ==
    op = "CopyFile" =>
       \A i \in CopyFns({"fchmod", "futimens", "futimes"}) :
          \E j \in CopyFns({"fstat"}) : j < i /\ calls[j].res = 0

---------------------------------------------------------------------------
\* Further claims about SystemNative_ReadDirR.

\* C33: on a build with readdir_r that is not AIX, a readdir_r that returns a
\* failure code other than EINTR is the last native call of the ReadDirR call,
\* whatever errno held on entry: the loop re-issues readdir_r only after a
\* readdir_r that was itself interrupted.
C33_RetryOnlyWhenInterrupted ==
    (op = "ReadDirR" /\ plat.HAVE_READDIR_R /\ ~plat.AIX) =>
       \A i \in 1 .. Len(calls) :
          (calls[i].res # 0 /\ calls[i].res # ErrnoValue("EINTR")) => i = Len(calls)

\* C34: on a build with readdir_r, for a scratch buffer at address a whose size
\* is the value of GetReadDirRBufferSize (sizeof(struct dirent) + 8 - 1), the
\* aligned address e has a <= e <= a + 7, is a multiple of 8 and leaves room
\* for the record (e + sizeof(struct dirent) <= a + bufferSize), so ReadDirR
\* goes on to the native read; and whenever the record does not fit, ReadDirR
\* returns ERANGE and issues no native read.
C34_BufferAlignment ==
    (op = "ReadDirR" /\ plat.HAVE_READDIR_R) =>
       LET a == args[1]
           bufferSize == args[2]
           e == AlignedEntry(a)
       IN  /\ bufferSize = SystemNative_GetReadDirRBufferSize =>
                /\ a <= e /\ e <= a + 7
                /\ e % dirent_alignment = 0
                /\ e + SizeofDirent <= a + bufferSize
                /\ pc = "done" => calls # <<>>
           /\ e + SizeofDirent > a + bufferSize =>
                pc = "done" /\ ret = ErrnoValue("ERANGE") /\ calls = <<>>

\* A read into a buffer that starts 7 bytes past a multiple of 8 has returned
\* an entry.
C34_Witness ==
    /\ pc = "done" /\ op = "ReadDirR" /\ plat.HAVE_READDIR_R
    /\ args = <<4103, SystemNative_GetReadDirRBufferSize>>
    /\ AlignedEntry(args[1]) = 4104
    /\ ret = 0 /\ calls # <<>> /\ out.Name = 1001

---------------------------------------------------------------------------
\* Claims about SystemNative_MMap, SystemNative_LockFileRegion and SystemNative_Pipe.

\* C35: MMap never calls the native mmap with both MAP_SHARED and MAP_PRIVATE:
\* a portable flag word that holds both PAL_MAP_SHARED and PAL_MAP_PRIVATE is
\* refused with EINVAL (when the length has passed its test).
C35_PrivateSharedExclusive ==
    op = "MMap" =>
       /\ \A i \in 1 .. Len(calls) :
             calls[i].fn = "mmap" =>
                ~(Has(calls[i].args[4], MAP_SHARED) /\ Has(calls[i].args[4], MAP_PRIVATE))
       /\ (/\ Has(args[4], PAL_MAP_SHARED) /\ Has(args[4], PAL_MAP_PRIVATE)
           /\ ~GtSizeMax(args[2]))
             => (pc = "done" /\ ret = 0 /\ errno = "EINVAL" /\ calls = <<>>)

\* C36: LockFileRegion passes F_RDLCK for lock kind 0, F_WRLCK for 1 and
\* F_UNLCK for 2, asks for an unlock only when the kind is 2, and for a kind
\* outside {0, 1, 2} issues no native call on the region.
C36_LockKinds ==
    op = "LockFileRegion" =>
       /\ \A i \in 1 .. Len(calls) :
             LET l_type == calls[i].args[3]
             IN  /\ args[4] = 0 => l_type = "F_RDLCK"
                 /\ args[4] = 1 => l_type = "F_WRLCK"
                 /\ args[4] = 2 => l_type = "F_UNLCK"
                 /\ l_type = "F_UNLCK" => args[4] = 2
       /\ args[4] \notin {0, 1, 2} => calls = <<>>

\* A descriptor-flag call of the Pipe call failed, and not by interruption.
PipeSetFDFailed(i) ==
    calls[i].fn = "fcntl" /\ calls[i].res < 0 /\ calls[i].err # "EINTR"

\* C37: Pipe refuses every flag word but 0 and PAL_O_CLOEXEC with -1 and
\* EINVAL, creating no pipe; a Pipe call that fails leaves no descriptor open;
\* on a build without pipe2, when the pipe was created and setting FD_CLOEXEC
\* on one of its ends failed other than by interruption, Pipe returns failure
\* with both descriptors closed and errno that of the failed fcntl, not of a
\* close; and when Pipe returns 0 for PAL_O_CLOEXEC both ends have FD_CLOEXEC.
C37_PipeFlagsAndCleanup ==
    Returned("Pipe") =>
       /\ args[1] \notin {0, PAL_O_CLOEXEC} =>
             ret = -1 /\ errno = "EINVAL" /\ calls = <<>> /\ fdtab.open = {}
       /\ ret # 0 => fdtab.open = {}
       /\ ~plat.HAVE_PIPE2 =>
             \A i \in 1 .. Len(calls) :
                PipeSetFDFailed(i) =>
                   /\ ret = -1 /\ fdtab.open = {}
                   /\ errno = calls[i].err
                   /\ \E j, k \in i + 1 .. Len(calls) :
                         /\ calls[j].fn = "close" /\ calls[j].args = <<PipeFds[1]>>
                         /\ calls[k].fn = "close" /\ calls[k].args = <<PipeFds[2]>>
       /\ (ret = 0 /\ args[1] = PAL_O_CLOEXEC) =>
             /\ fdtab.open = {PipeFds[1], PipeFds[2]}
             /\ fdtab.cloexec = fdtab.open

\* Without pipe2, FD_CLOEXEC was set on the first end, failed with EIO on the
\* second, and a close then failed with EACCES: Pipe has returned -1 with EIO.
C37_Witness ==
    /\ Returned("Pipe") /\ ~plat.HAVE_PIPE2 /\ ret = -1 /\ errno = "EIO"
    /\ \E i \in 1 .. Len(calls) :
          PipeSetFDFailed(i) /\ calls[i].args[1] = PipeFds[2] /\ calls[i].err = "EIO"
    /\ calls[Len(calls)].fn = "close" /\ calls[Len(calls)].err = "EACCES"
    /\ fdtab.open = {}

====
